---- MODULE Spec2Model ----
(***************************************************************************)
(* KeyFlow backend (src/backend/server.py): the HTTP handlers over the     *)
(* document store, one action per handler.  Every collection is a          *)
(* sequence of documents in insertion order; find_one returns the first    *)
(* match, update_one changes the first match.                              *)
(***************************************************************************)
EXTENDS Integers, Sequences, FiniteSets, TLC

VARIABLES users, dealerships, keys, key_history, repair_requests,
          time_alerts, pdi_audit_log, invites, sales_goals, daily_activities,
          uuid, tokens, procs, now, last, cycle

db == <<users, dealerships, keys, key_history, repair_requests,
        time_alerts, pdi_audit_log, invites, sales_goals, daily_activities, uuid>>
vars == <<users, dealerships, keys, key_history, repair_requests,
          time_alerts, pdi_audit_log, invites, sales_goals, daily_activities,
          uuid, tokens, procs, now, last, cycle>>

\* ------------------------------------------------------------ values

\* Python None / JSON null: Null for a document, None for a scalar.
Null == [null |-> TRUE]
None == "None"
\* Identifiers are positive; NoId stands for None where an identifier goes.
NoId == 0

OWNER == "owner"
DEALERSHIP_ADMIN == "dealership_admin"
USER == "user"

AVAILABLE == "available"
CHECKED_OUT == "checked_out"

NEEDS_ATTENTION == "needs_attention"
FIXED == "fixed"
ATTENTION_NONE == "none"

NOT_PDI_YET == "not_pdi_yet"
IN_PROGRESS == "in_progress"
FINISHED == "finished"
VALID_PDI_STATUSES == {NOT_PDI_YET, IN_PROGRESS, FINISHED}

DEMO_MAX_KEYS == 4
DEMO_MAX_USERS == 1
DEFAULT_ALERT_MINUTES == 30
MAX_IMAGES == 3
PIN_MIN_LEN == 4
PIN_MAX_LEN == 6

\* ------------------------------------------------------------ bounds

MaxKeys == 1
MaxNotes == 2
MaxHistory == 2
MaxRepairs == 1
MaxIds == MaxRepairs + 1
MaxFlagged == 2
MaxImported == 4
MaxCheckoutTick == 1
MaxDemoKeys == 5
\* The clock counts ticks; a minute is TicksPerMinute of them, so that a
\* checkout can be a fraction of a minute old.
TicksPerMinute == 2
MaxExtraTicks == 1
MaxAlerts == 1
MaxAudit == 3
MaxUsers == 3
MaxDealerships == 2
MaxRows == 3

\* ------------------------------------------------------------ helpers

Range(s) == {s[i] : i \in DOMAIN s}

\* list[:n]
Take(s, n) == IF Len(s) <= n THEN s ELSE SubSeq(s, 1, n)

\* list.insert(0, x)
Insert0(s, x) == <<x>> \o s

\* Python truthiness of an Optional[str]: None and "" are falsy.
Truthy(s) == s /= None /\ s /= ""

Min(S) == CHOOSE x \in S : \A y \in S : x <= y

\* find_one / update_one: of the indexes of the matching documents, the first;
\* 0 if there is none.
First(hits) == IF hits = {} THEN 0 ELSE Min(hits)

\* delete_one at index i
RemoveAt(coll, i) == [j \in 1..(Len(coll) - 1) |-> IF j < i THEN coll[j] ELSE coll[j + 1]]

\* str(uuid.uuid4()): a fresh identifier of collection c.
NewId(c) == uuid[c] + 1
Bump(c) == [uuid EXCEPT ![c] = @ + 1]

find_key(key_id) == First({i \in DOMAIN keys : keys[i].id = key_id})

\* ------------------------------------------------------------ auth helpers

\* bcrypt: a salted digest; the stored value is never the plaintext.
Digest(password, salt) == <<salt, password>>
hash_password(password, salt) == [salt |-> salt, digest |-> Digest(password, salt)]
verify_password(password, hashed) == hashed.digest = Digest(password, hashed.salt)

\* get_current_user: the token names a user id; the user document or Null.
get_current_user(uid) ==
  LET i == First({j \in DOMAIN users : users[j].id = uid})
  IN IF i = 0 THEN Null ELSE users[i]

require_role_any(user, roles) == TRUE

require_role(user, roles) == user.role \in roles

is_demo(user) == user.is_demo

\* ------------------------------------------------------------ responses

\* The request just served and its response; a rejected request writes nothing.
Respond(r) == last' = r
Reject(r) == /\ last' = r
             /\ UNCHANGED <<procs, tokens, db, now, cycle>>

\* The checkout/return cycle in progress (observation only): the key, the
\* length of its notes_history before the checkout and the non-empty notes
\* supplied so far.
NoCycle == [phase |-> "none", key |-> 0, base |-> 0, notes |-> 0]
CycleTouch(key_id) == IF cycle.key = key_id THEN NoCycle ELSE cycle

\* What is kept of a request: the operation and the key it names.
Req(op, uid, key_id, data) ==
  [op |-> op, code |-> 0, key |-> key_id, body |-> Null]
Rsp(r, code) == [r EXCEPT !.code = code]
RspBody(r, code, body) == [r EXCEPT !.code = code, !.body = body]

\* ------------------------------------------------------------ text

\* A string as far as lower() and strip() can tell: its core, whether it has
\* upper-case letters, whether it has leading or trailing whitespace.
Text(core) == [core |-> core, caps |-> FALSE, pad |-> FALSE]
Padded(core) == [core |-> core, caps |-> FALSE, pad |-> TRUE]
Caps(core) == [core |-> core, caps |-> TRUE, pad |-> FALSE]
strip(t) == [t EXCEPT !.pad = FALSE]
lower(t) == [t EXCEPT !.caps = FALSE]

\* ------------------------------------------------------------ keys

\* create_key's document.  It stores no notes_history, images or
\* attention_status: the handlers read them with .get(), which gives [] and
\* None for the missing fields.
new_key_doc(key_id, stock_number, condition, dealership_id) ==
  [id |-> key_id,
   stock_number |-> stock_number,
   condition |-> condition,
   dealership_id |-> dealership_id,
   status |-> AVAILABLE,
   current_checkout |-> Null,
   notes_history |-> <<>>,
   images |-> <<>>,
   attention_status |-> None,
   pdi_status |-> NOT_PDI_YET,
   pdi_last_updated_by_user_id |-> NoId,
   is_active |-> TRUE]

active_key_count(dealership_id) ==
  Cardinality({i \in DOMAIN keys :
                 keys[i].dealership_id = dealership_id /\ keys[i].is_active})

demo_key_limit_reached_strict(key_count) == key_count > DEMO_MAX_KEYS
demo_key_limit_reached(key_count) == key_count >= DEMO_MAX_KEYS

create_key(uid, data) ==
  LET user == get_current_user(uid)
      req == Req("create_key", uid, 0, data)
  IN
  IF user = Null THEN Reject(Rsp(req, 401))
  ELSE IF ~require_role(user, {OWNER, DEALERSHIP_ADMIN}) THEN Reject(Rsp(req, 403))
  ELSE IF user.role = DEALERSHIP_ADMIN /\ data.dealership_id /= user.dealership_id
    THEN Reject(Rsp(req, 403))
  ELSE IF is_demo(user) /\ demo_key_limit_reached(active_key_count(data.dealership_id))
    THEN Reject(Rsp(req, 403))
  ELSE
    LET key_id == Len(keys) + 1
        doc == new_key_doc(key_id, data.stock_number, data.condition, data.dealership_id)
    IN /\ keys' = Append(keys, doc)
       /\ last' = RspBody(req, 200, doc)
       /\ UNCHANGED <<procs, tokens, invites, users, dealerships, key_history, repair_requests,
                      time_alerts, pdi_audit_log, sales_goals, daily_activities, uuid, now, cycle>>

\* update_key: $set of the fields of KeyUpdate that are not None.
update_key(uid, key_id, data) ==
  LET user == get_current_user(uid)
      i == find_key(key_id)
      req == Req("update_key", uid, key_id, data)
  IN
  IF user = Null THEN Reject(Rsp(req, 401))
  ELSE IF ~require_role(user, {OWNER, DEALERSHIP_ADMIN}) THEN Reject(Rsp(req, 403))
  ELSE IF data.stock_number = Null /\ data.is_active = None THEN Reject(Rsp(req, 400))
  ELSE IF i = 0 THEN Reject(Rsp(req, 404))
  ELSE
    LET k1 == IF data.stock_number = Null THEN keys[i]
              ELSE [keys[i] EXCEPT !.stock_number = data.stock_number]
        k2 == IF data.is_active = None THEN k1
              ELSE [k1 EXCEPT !.is_active = (data.is_active = "true")]
    IN /\ keys' = [keys EXCEPT ![i] = k2]
       /\ last' = RspBody(req, 200, k2)
       /\ cycle' = cycle
       /\ UNCHANGED <<procs, tokens, invites, users, dealerships, key_history, repair_requests,
                      time_alerts, pdi_audit_log, sales_goals, daily_activities, uuid, now>>

\* ------------------------------------------------------------ checkout

already_checked_out_unchecked(key) == FALSE
already_checked_out(key) == key.status = CHECKED_OUT

note_entry(note, user, action) ==
  [note |-> note, user_id |-> user.id, action |-> action, timestamp |-> now]

checkout_notes_history_appended(key, data, user) ==
  IF Truthy(data.notes)
  THEN Append(key.notes_history, note_entry(data.notes, user, "checkout"))
  ELSE key.notes_history

checkout_notes_history(key, data, user) ==
  IF Truthy(data.notes)
  THEN Insert0(key.notes_history, note_entry(data.notes, user, "checkout"))
  ELSE key.notes_history

checkout_images_all(images) == images
checkout_images(images) == Take(images, MAX_IMAGES)

repair_doc(key, data, user) ==
  [id |-> NewId("repair_requests"),
   key_id |-> key.id,
   stock_number |-> key.stock_number,
   dealership_id |-> key.dealership_id,
   reported_by_id |-> user.id,
   notes |-> IF Truthy(data.notes) THEN data.notes ELSE "Needs attention",
   images |-> IF data.images /= <<>> THEN checkout_images(data.images) ELSE <<>>,
   status |-> "pending",
   reported_at |-> now,
   fixed_by_id |-> NoId,
   fixed_at |-> <<>>,
   fix_notes |-> None]

checkout_key(uid, key_id, data) ==
  LET user == get_current_user(uid)
      i == find_key(key_id)
      req == Req("checkout", uid, key_id, data)
  IN
  IF user = Null THEN Reject(Rsp(req, 401))
  ELSE IF i = 0 THEN Reject(Rsp(req, 404))
  ELSE IF already_checked_out(keys[i]) THEN Reject(Rsp(req, 400))
  ELSE
    LET key == keys[i]
        checkout_info == [user_id |-> user.id,
                          reason |-> data.reason,
                          notes |-> data.notes,
                          service_bay |-> data.service_bay,
                          checked_out_at |-> now]
        notes_history == checkout_notes_history(key, data, user)
        k1 == [key EXCEPT !.status = CHECKED_OUT,
                          !.current_checkout = checkout_info,
                          !.notes_history = notes_history]
        k2 == IF data.needs_attention
              THEN [k1 EXCEPT !.attention_status = NEEDS_ATTENTION,
                              !.images = IF data.images /= <<>>
                                         THEN checkout_images(data.images) ELSE @]
              ELSE k1
        history_doc == [id |-> Len(key_history) + 1,
                        key_id |-> key_id,
                        dealership_id |-> key.dealership_id,
                        action |-> "checkout",
                        user_id |-> user.id,
                        reason |-> data.reason,
                        notes |-> data.notes,
                        service_bay |-> data.service_bay,
                        checked_out_at |-> now]
    IN /\ IF data.needs_attention
          THEN /\ repair_requests' = Append(repair_requests, repair_doc(key, data, user))
               /\ uuid' = Bump("repair_requests")
          ELSE UNCHANGED <<repair_requests, uuid>>
       /\ keys' = [keys EXCEPT ![i] = k2]
       /\ key_history' = Append(key_history, history_doc)
       /\ last' = RspBody(req, 200, k2)
       /\ cycle' = [phase |-> "out", key |-> key_id,
                    base |-> Len(key.notes_history),
                    notes |-> IF Truthy(data.notes) THEN 1 ELSE 0]
       /\ UNCHANGED <<procs, tokens, invites, users, dealerships, time_alerts, pdi_audit_log,
                      sales_goals, daily_activities, now>>

\* ------------------------------------------------------------ return

not_checked_out_unchecked(key) == FALSE

not_checked_out(key) == key.status /= CHECKED_OUT

\* The minutes rounded up instead of truncated.
duration_minutes_rounded_up(checked_out_at, returned_at) ==
  (returned_at - checked_out_at + TicksPerMinute - 1) \div TicksPerMinute

\* int((returned_at - checked_out_at).total_seconds() / 60): whole minutes,
\* truncated toward zero.
duration_minutes(checked_out_at, returned_at) ==
  IF returned_at >= checked_out_at
  THEN (returned_at - checked_out_at) \div TicksPerMinute
  ELSE 0 - ((checked_out_at - returned_at) \div TicksPerMinute)

return_notes_history_dropped(key, data, user) == key.notes_history
return_notes_history(key, data, user) ==
  IF Truthy(data.notes)
  THEN Insert0(key.notes_history, note_entry(data.notes, user, "return"))
  ELSE key.notes_history

return_update_keeps_checkout(key, notes_history) ==
  [key EXCEPT !.status = AVAILABLE, !.notes_history = notes_history]
return_update(key, notes_history) ==
  [key EXCEPT !.status = AVAILABLE,
              !.current_checkout = Null,
              !.notes_history = notes_history]

return_key(uid, key_id, data) ==
  LET user == get_current_user(uid)
      i == find_key(key_id)
      req == Req("return", uid, key_id, data)
  IN
  IF user = Null THEN Reject(Rsp(req, 401))
  ELSE IF i = 0 THEN Reject(Rsp(req, 404))
  ELSE IF not_checked_out(keys[i]) THEN Reject(Rsp(req, 400))
  \* key.get("current_checkout", {}) is None: .get on it raises, answered 500.
  ELSE IF keys[i].current_checkout = Null THEN Reject(Rsp(req, 500))
  ELSE
    LET key == keys[i]
        checkout_info == key.current_checkout
        returned_at == now
        notes_history == return_notes_history(key, data, user)
        history_doc == [id |-> Len(key_history) + 1,
                        key_id |-> key_id,
                        dealership_id |-> key.dealership_id,
                        action |-> "return",
                        user_id |-> user.id,
                        notes |-> data.notes,
                        returned_at |-> returned_at,
                        duration_minutes |->
                          duration_minutes(checkout_info.checked_out_at, returned_at),
                        original_checkout |-> checkout_info]
        k1 == return_update(key, notes_history)
    IN /\ key_history' = Append(key_history, history_doc)
       /\ keys' = [keys EXCEPT ![i] = k1]
       /\ last' = RspBody(req, 200, k1)
       /\ cycle' = IF cycle.phase = "out" /\ cycle.key = key_id
                   THEN [cycle EXCEPT !.phase = "done",
                                      !.notes = @ + (IF Truthy(data.notes) THEN 1 ELSE 0)]
                   ELSE CycleTouch(key_id)
       /\ UNCHANGED <<procs, tokens, invites, users, dealerships, repair_requests, time_alerts,
                      pdi_audit_log, sales_goals, daily_activities, uuid, now>>

\* ------------------------------------------------------------ bay move

\* The bay is changed but the move is not logged.
move_to_bay_unlogged(uid, key_id, new_bay) ==
  LET user == get_current_user(uid)
      i == find_key(key_id)
      req == Req("move_bay", uid, key_id, [new_bay |-> new_bay])
  IN
  IF user = Null THEN Reject(Rsp(req, 401))
  ELSE IF i = 0 THEN Reject(Rsp(req, 404))
  ELSE IF not_checked_out(keys[i]) THEN Reject(Rsp(req, 400))
  ELSE
    LET k1 == [keys[i] EXCEPT !.current_checkout.service_bay = new_bay]
    IN /\ keys' = [keys EXCEPT ![i] = k1]
       /\ last' = RspBody(req, 200, k1)
       /\ UNCHANGED <<procs, tokens, invites, users, dealerships, key_history,
                      repair_requests, time_alerts, pdi_audit_log, sales_goals,
                      daily_activities, uuid, now, cycle>>

move_to_bay(uid, key_id, new_bay) ==
  LET user == get_current_user(uid)
      i == find_key(key_id)
      req == Req("move_bay", uid, key_id, [new_bay |-> new_bay])
  IN
  IF user = Null THEN Reject(Rsp(req, 401))
  ELSE IF i = 0 THEN Reject(Rsp(req, 404))
  ELSE IF not_checked_out(keys[i]) THEN Reject(Rsp(req, 400))
  ELSE
    LET key == keys[i]
        old_bay == key.current_checkout.service_bay
        checkout_info == [key.current_checkout EXCEPT !.service_bay = new_bay]
        k1 == [key EXCEPT !.current_checkout = checkout_info]
        history_doc == [id |-> Len(key_history) + 1,
                        key_id |-> key_id,
                        dealership_id |-> key.dealership_id,
                        action |-> "bay_move",
                        user_id |-> user.id,
                        old_bay |-> old_bay,
                        new_bay |-> new_bay,
                        moved_at |-> now]
    IN /\ keys' = [keys EXCEPT ![i] = k1]
       /\ key_history' = Append(key_history, history_doc)
       /\ last' = RspBody(req, 200, k1)
       /\ cycle' = cycle
       /\ UNCHANGED <<procs, tokens, invites, users, dealerships, repair_requests, time_alerts,
                      pdi_audit_log, sales_goals, daily_activities, uuid, now>>

\* ------------------------------------------------------------ repair requests

not_flagged(key) == key.attention_status /= NEEDS_ATTENTION

fixed_request(r, user, data) ==
  [r EXCEPT !.status = "fixed",
            !.fixed_by_id = user.id,
            !.fixed_at = <<now>>,
            !.fix_notes = data.notes]

fix_repair_request_many(requests, key_id, user, data) ==
  [j \in DOMAIN requests |->
     IF requests[j].key_id = key_id /\ requests[j].status = "pending"
     THEN fixed_request(requests[j], user, data) ELSE requests[j]]
\* update_one({"key_id": key_id, "status": "pending"}, ...): the first match.
fix_repair_request(requests, key_id, user, data) ==
  LET j == First({n \in DOMAIN requests :
                     requests[n].key_id = key_id /\ requests[n].status = "pending"})
  IN IF j = 0 THEN requests
     ELSE [requests EXCEPT ![j] = fixed_request(@, user, data)]

mark_key_fixed(uid, key_id, data) ==
  LET user == get_current_user(uid)
      i == find_key(key_id)
      req == Req("mark_fixed", uid, key_id, data)
  IN
  IF user = Null THEN Reject(Rsp(req, 401))
  ELSE IF i = 0 THEN Reject(Rsp(req, 404))
  ELSE IF not_flagged(keys[i]) THEN Reject(Rsp(req, 400))
  ELSE
    LET key == keys[i]
        notes_history ==
          Insert0(key.notes_history,
                  note_entry(IF Truthy(data.notes) THEN data.notes ELSE "Marked as fixed",
                             user, "marked_fixed"))
        k1 == [key EXCEPT !.attention_status = FIXED, !.notes_history = notes_history]
    IN /\ keys' = [keys EXCEPT ![i] = k1]
       /\ repair_requests' = fix_repair_request(repair_requests, key_id, user, data)
       /\ last' = RspBody(req, 200, k1)
       /\ cycle' = CycleTouch(key_id)
       /\ UNCHANGED <<procs, tokens, invites, users, dealerships, key_history, time_alerts,
                      pdi_audit_log, sales_goals, daily_activities, uuid, now>>

clear_repair_request(uid, request_id) ==
  LET user == get_current_user(uid)
      j == First({n \in DOMAIN repair_requests : repair_requests[n].id = request_id})
      req == Req("clear_repair_request", uid, 0, [request_id |-> request_id])
  IN
  IF user = Null THEN Reject(Rsp(req, 401))
  ELSE IF ~require_role(user, {OWNER, DEALERSHIP_ADMIN}) THEN Reject(Rsp(req, 403))
  ELSE IF j = 0 THEN Reject(Rsp(req, 404))
  ELSE IF user.role = DEALERSHIP_ADMIN
          /\ repair_requests[j].dealership_id /= user.dealership_id
    THEN Reject(Rsp(req, 403))
  ELSE
    LET i == find_key(repair_requests[j].key_id)
    IN /\ keys' = IF i = 0 THEN keys
                  ELSE [keys EXCEPT ![i] = [@ EXCEPT !.attention_status = ATTENTION_NONE,
                                                     !.images = <<>>]]
       /\ repair_requests' = RemoveAt(repair_requests, j)
       /\ last' = Rsp(req, 200)
       /\ cycle' = cycle
       /\ UNCHANGED <<procs, tokens, invites, users, dealerships, key_history, time_alerts,
                      pdi_audit_log, sales_goals, daily_activities, uuid, now>>

add_key_images(uid, key_id, images) ==
  LET user == get_current_user(uid)
      i == find_key(key_id)
      req == Req("add_images", uid, key_id, [images |-> images])
  IN
  IF user = Null THEN Reject(Rsp(req, 401))
  ELSE IF i = 0 THEN Reject(Rsp(req, 404))
  ELSE
    LET k1 == [keys[i] EXCEPT !.images = Take(@ \o images, MAX_IMAGES)]
    IN /\ keys' = [keys EXCEPT ![i] = k1]
       /\ last' = RspBody(req, 200, k1)
       /\ cycle' = cycle
       /\ UNCHANGED <<procs, tokens, invites, users, dealerships, key_history, repair_requests,
                      time_alerts, pdi_audit_log, sales_goals, daily_activities, uuid, now>>

\* ------------------------------------------------------------ bulk import

\* One row of the import loop against the keys stored so far (the rows before
\* it included): the keys after the row and its error entry, if any.
valid_condition(condition) == lower(strip(condition)) \in {Text("new"), Text("used")}

duplicate_stock_number(stored, dealership_id, stock_number) ==
  \E i \in DOMAIN stored :
     /\ stored[i].dealership_id = dealership_id
     /\ stored[i].stock_number = stock_number
     /\ stored[i].is_active

RECURSIVE import_rows(_, _, _, _)
\* acc = [keys, errors, created]; idx is the 1-based row number.
import_rows(rows, idx, dealership_id, acc) ==
  IF idx > Len(rows) THEN acc
  ELSE
    LET key_data == rows[idx]
        condition == lower(strip(key_data.condition))
    IN IF ~valid_condition(key_data.condition)
       THEN import_rows(rows, idx + 1, dealership_id,
                        [acc EXCEPT !.errors = Append(@, [row |-> idx, error |-> "invalid_condition"])])
       ELSE IF duplicate_stock_number(acc.keys, dealership_id, key_data.stock_number)
       THEN import_rows(rows, idx + 1, dealership_id,
                        [acc EXCEPT !.errors = Append(@, [row |-> idx, error |-> "already_exists"])])
       ELSE
         LET doc == new_key_doc(Len(acc.keys) + 1, strip(key_data.stock_number),
                                condition, dealership_id)
         IN import_rows(rows, idx + 1, dealership_id,
                        [acc EXCEPT !.keys = Append(@, doc),
                                    !.created = Append(@, doc)])

demo_import_limit_exceeded(current_count, n) == current_count + n > DEMO_MAX_KEYS

bulk_import_keys(uid, data) ==
  LET user == get_current_user(uid)
      req == Req("bulk_import", uid, 0, data)
  IN
  IF user = Null THEN Reject(Rsp(req, 401))
  ELSE IF ~require_role(user, {OWNER, DEALERSHIP_ADMIN}) THEN Reject(Rsp(req, 403))
  ELSE IF user.role = DEALERSHIP_ADMIN /\ data.dealership_id /= user.dealership_id
    THEN Reject(Rsp(req, 403))
  ELSE IF is_demo(user)
          /\ demo_import_limit_exceeded(active_key_count(data.dealership_id), Len(data.keys))
    THEN Reject(Rsp(req, 403))
  ELSE
    LET res == import_rows(data.keys, 1, data.dealership_id,
                           [keys |-> keys, errors |-> <<>>, created |-> <<>>])
    IN /\ keys' = res.keys
       /\ last' = RspBody(req, 200, [success |-> TRUE,
                                     imported |-> Len(res.created),
                                     errors |-> res.errors,
                                     total_submitted |-> Len(data.keys)])
       /\ UNCHANGED <<procs, tokens, invites, users, dealerships, key_history, repair_requests,
                      time_alerts, pdi_audit_log, sales_goals, daily_activities, uuid, now, cycle>>

\* ------------------------------------------------------------ initial states

\* Names of the users a store starts with, by user id.
StaffNames == <<"owner", "alice", "bob", "carol", "dave", "erin">>
staff_name(id) == IF id \in DOMAIN StaffNames THEN StaffNames[id] ELSE "staff"

user_doc(id, email, role, dealership_id) ==
  [id |-> id, email |-> email, name |-> Text(staff_name(id)), role |-> role,
   dealership_id |-> dealership_id, admin_pin |-> Null, pin |-> Null,
   is_demo |-> FALSE]

dealership_doc(id, name) == [id |-> id, name |-> name, is_demo |-> FALSE]

\* The requests being served: none between requests that do not overlap.
NoProcs == <<>>

NoRequest == Req("none", NoId, NoId, Null)

EmptyStore ==
  /\ users = <<>>
  /\ dealerships = <<>>
  /\ keys = <<>>
  /\ key_history = <<>>
  /\ repair_requests = <<>>
  /\ time_alerts = <<>>
  /\ pdi_audit_log = <<>>
  /\ invites = <<>>
  /\ sales_goals = <<>>
  /\ daily_activities = <<>>
  /\ tokens = {}
  /\ procs = NoProcs
  /\ uuid = [c \in {"users", "dealerships", "repair_requests", "time_alerts", "invites", "sales"} |-> 0]
  /\ now = 0
  /\ last = NoRequest
  /\ cycle = NoCycle

\* A store with the owner, one dealership, its admin and one staff user: what
\* owner_login, create_dealership and create_user leave behind.
StaffedStore ==
  /\ users = <<user_doc(1, "owner@keyflow.app", OWNER, NoId),
               user_doc(2, "admin@d1", DEALERSHIP_ADMIN, 1),
               user_doc(3, None, USER, 1)>>
  /\ dealerships = <<dealership_doc(1, "d1")>>
  /\ keys = <<>>
  /\ key_history = <<>>
  /\ repair_requests = <<>>
  /\ time_alerts = <<>>
  /\ pdi_audit_log = <<>>
  /\ invites = <<>>
  /\ sales_goals = <<>>
  /\ daily_activities = <<>>
  /\ tokens = {}
  /\ procs = NoProcs
  /\ uuid = [c \in {"users", "dealerships", "repair_requests", "time_alerts", "invites", "sales"} |->
               IF c = "users" THEN 3 ELSE IF c = "dealerships" THEN 1 ELSE 0]
  /\ now = 0
  /\ last = NoRequest
  /\ cycle = NoCycle

\* ------------------------------------------------------------ key lifecycle

Notes == {None, "", "note"}
Images4 == <<"img1", "img2", "img3", "img4">>

CheckoutData(notes, needs_attention, images) ==
  [reason |-> "service", notes |-> notes, service_bay |-> None,
   needs_attention |-> needs_attention, images |-> images]

KeyData(stock_number, dealership_id) ==
  [stock_number |-> stock_number, condition |-> Text("new"), dealership_id |-> dealership_id]

KeyUpdateData(stock_number, is_active) ==
  [stock_number |-> stock_number, is_active |-> is_active]

\* Stores with keys already created by the admin (create_key).
KeyedStore(n) ==
  /\ users = <<user_doc(1, "owner@keyflow.app", OWNER, NoId),
               user_doc(2, "admin@d1", DEALERSHIP_ADMIN, 1),
               user_doc(3, None, USER, 1)>>
  /\ dealerships = <<dealership_doc(1, "d1")>>
  /\ keys = [i \in 1..n |-> new_key_doc(i, Text("A1"), Text("new"), 1)]
  /\ key_history = <<>>
  /\ repair_requests = <<>>
  /\ time_alerts = <<>>
  /\ pdi_audit_log = <<>>
  /\ invites = <<>>
  /\ sales_goals = <<>>
  /\ daily_activities = <<>>
  /\ tokens = {}
  /\ procs = NoProcs
  /\ uuid = [c \in {"users", "dealerships", "repair_requests", "time_alerts", "invites", "sales"} |->
               IF c = "users" THEN 3 ELSE IF c = "dealerships" THEN 1 ELSE 0]
  /\ now = 0
  /\ last = NoRequest
  /\ cycle = NoCycle

NotesRoom == \A i \in DOMAIN keys : Len(keys[i].notes_history) < MaxNotes
HistoryRoom == Len(key_history) < MaxHistory
RepairRoom == Len(repair_requests) < MaxRepairs /\ uuid["repair_requests"] < MaxIds

\* Every key operation, requests one at a time.
Init == StaffedStore

Next ==
  \/ /\ Len(keys) < MaxKeys
     /\ create_key(2, KeyData(Text("A1"), 1))
  \/ /\ Len(keys) < MaxKeys
     /\ bulk_import_keys(2, [dealership_id |-> 1,
                              keys |-> <<[condition |-> Caps("new"), stock_number |-> Text("A1")]>>])
  \/ \E k \in 1..MaxKeys, a \in {"false", "true"} :
       update_key(2, k, KeyUpdateData(Null, a))
  \/ \E k \in 1..MaxKeys, na \in BOOLEAN :
       /\ HistoryRoom /\ RepairRoom /\ NotesRoom
       /\ checkout_key(3, k, CheckoutData("note", na, <<>>))
  \/ \E k \in 1..MaxKeys :
       /\ HistoryRoom /\ NotesRoom
       /\ return_key(3, k, [notes |-> None])
  \/ \E k \in 1..MaxKeys :
       /\ HistoryRoom
       /\ move_to_bay(3, k, "bay2")
  \/ \E k \in 1..MaxKeys :
       /\ NotesRoom
       /\ mark_key_fixed(3, k, [notes |-> None])
  \/ \E k \in 1..MaxKeys : add_key_images(3, k, <<"img1">>)
  \/ \E r \in 1..MaxIds : clear_repair_request(2, r)

Spec == Init /\ [][Next]_vars

\* C1: after any sequence of completed key requests, every key has
\* current_checkout non-null if and only if its status is checked_out.
CurrentCheckoutIffCheckedOut ==
  \A i \in DOMAIN keys :
     (keys[i].current_checkout /= Null) <=> (keys[i].status = CHECKED_OUT)

\* A key that went out and came back.
CurrentCheckoutIffCheckedOutWitness ==
  \E h \in Range(key_history) :
     /\ h.action = "return"
     /\ keys[h.key_id].status = AVAILABLE
     /\ keys[h.key_id].current_checkout = Null

\* ------------------------------------------------------------ checkout/return cycles

Callers == {2, 3}

InitCycle == KeyedStore(MaxKeys)

NextCycle ==
  \/ \E u \in Callers, k \in 1..MaxKeys, n \in Notes, na \in BOOLEAN :
       /\ HistoryRoom /\ RepairRoom /\ NotesRoom
       /\ checkout_key(u, k, CheckoutData(n, na, <<>>))
  \/ \E u \in Callers, k \in 1..MaxKeys, n \in Notes :
       /\ HistoryRoom /\ NotesRoom
       /\ return_key(u, k, [notes |-> n])
  \/ \E k \in 1..MaxKeys :
       /\ NotesRoom
       /\ mark_key_fixed(3, k, [notes |-> None])

SpecCycle == InitCycle /\ [][NextCycle]_vars

\* C2: a checkout request on a key that is checked out is rejected and changes
\* neither the key, the key history nor the repair requests, whatever note or
\* needs_attention flag it carries.
CheckoutOfCheckedOutKeyRejected ==
  [][\A u \in Callers, k \in DOMAIN keys, n \in Notes, na \in BOOLEAN :
        (keys[k].status = CHECKED_OUT /\ checkout_key(u, k, CheckoutData(n, na, <<>>)))
          => /\ last'.code = 400
             /\ keys' = keys
             /\ key_history' = key_history
             /\ repair_requests' = repair_requests]_vars

CheckoutOfCheckedOutKeyRejectedWitness ==
  /\ last.op = "checkout" /\ last.code = 400
  /\ keys[last.key].status = CHECKED_OUT
  /\ keys[last.key].notes_history = <<>>

\* C3: a successful checkout of an available key followed by a successful
\* return leaves the key available with no current_checkout, and its
\* notes_history longer by the number of non-empty notes of the two requests.
CheckoutReturnCycle ==
  cycle.phase = "done" =>
    /\ keys[cycle.key].status = AVAILABLE
    /\ keys[cycle.key].current_checkout = Null
    /\ cycle.notes \in 0..2
    /\ Len(keys[cycle.key].notes_history) = cycle.base + cycle.notes

CheckoutReturnCycleWitness ==
  /\ cycle.phase = "done" /\ cycle.notes = 2
  /\ last.op = "return" /\ last.code = 200

\* ------------------------------------------------------------ attention flags

ImageLists == {<<>>, Images4}
FixNotes == {None}

\* n flagged checkouts of one key take n checkouts and n - 1 returns.
FlaggedRoom ==
  /\ Len(repair_requests) < MaxFlagged
  /\ uuid["repair_requests"] < MaxFlagged + 1
  /\ Len(key_history) < 2 * MaxFlagged - 1

InitRepair == KeyedStore(MaxKeys)

NextRepair ==
  \/ \E k \in DOMAIN keys, na \in BOOLEAN, imgs \in ImageLists :
       /\ FlaggedRoom /\ NotesRoom
       /\ checkout_key(3, k, CheckoutData(None, na, imgs))
  \/ \E k \in DOMAIN keys :
       /\ FlaggedRoom
       /\ return_key(3, k, [notes |-> None])
  \/ \E k \in DOMAIN keys, n \in FixNotes :
       /\ NotesRoom
       /\ mark_key_fixed(2, k, [notes |-> n])
  \/ \E k \in DOMAIN keys :
       /\ keys[k].images = <<>>
       /\ add_key_images(3, k, <<"img0">>)
  \/ \E r \in 1..(MaxFlagged + 1) : clear_repair_request(2, r)

SpecRepair == InitRepair /\ [][NextRepair]_vars

\* C9: a successful checkout with needs_attention sets the key's
\* attention_status to needs_attention, stores the first 3 supplied images at
\* most on the key and appends one pending repair request naming the key and
\* the caller; one without needs_attention creates no repair request and
\* leaves the key's attention_status and images as they were.
CheckoutNeedsAttention ==
  [][\A u \in Callers, k \in DOMAIN keys, na \in BOOLEAN, imgs \in ImageLists :
        (checkout_key(u, k, CheckoutData(None, na, imgs)) /\ last'.code = 200)
          => IF na
             THEN /\ keys'[k].attention_status = NEEDS_ATTENTION
                  /\ Len(keys'[k].images) <= 3
                  /\ imgs /= <<>> =>
                       /\ Len(keys'[k].images) = IF Len(imgs) < 3 THEN Len(imgs) ELSE 3
                       /\ \A i \in DOMAIN keys'[k].images : keys'[k].images[i] = imgs[i]
                  /\ Len(repair_requests') = Len(repair_requests) + 1
                  /\ \A j \in DOMAIN repair_requests : repair_requests'[j] = repair_requests[j]
                  /\ LET r == repair_requests'[Len(repair_requests')]
                     IN /\ r.status = "pending"
                        /\ r.key_id = k
                        /\ r.reported_by_id = u
                        /\ \A j \in DOMAIN repair_requests : repair_requests[j].id /= r.id
             ELSE /\ repair_requests' = repair_requests
                  /\ keys'[k].attention_status = keys[k].attention_status
                  /\ keys'[k].images = keys[k].images]_vars

\* A flagged checkout with 4 images supplied has just succeeded.
CheckoutNeedsAttentionWitness ==
  /\ last.op = "checkout" /\ last.code = 200
  /\ keys[last.key].attention_status = NEEDS_ATTENTION
  /\ keys[last.key].images = <<"img1", "img2", "img3">>
  /\ \E r \in Range(repair_requests) :
        r.key_id = last.key /\ r.status = "pending" /\ Len(r.images) = 3

\* C10: mark-fixed on a key flagged needs_attention sets it to fixed, changes
\* exactly one pending repair request of the key to fixed with the caller as
\* fixer, and prepends one marked_fixed entry to notes_history; on a key not
\* flagged it is rejected with 400 and changes neither keys nor repair requests.
MarkFixed ==
  [][\A u \in Callers, k \in DOMAIN keys, n \in FixNotes :
        mark_key_fixed(u, k, [notes |-> n])
          => IF keys[k].attention_status = NEEDS_ATTENTION
             THEN /\ last'.code = 200
                  /\ keys'[k].attention_status = FIXED
                  /\ Len(repair_requests') = Len(repair_requests)
                  /\ \E j \in DOMAIN repair_requests :
                        /\ repair_requests[j].key_id = k
                        /\ repair_requests[j].status = "pending"
                        /\ repair_requests'[j].status = "fixed"
                        /\ repair_requests'[j].fixed_by_id = u
                        /\ \A m \in DOMAIN repair_requests \ {j} :
                              repair_requests'[m] = repair_requests[m]
                  /\ Len(keys'[k].notes_history) = Len(keys[k].notes_history) + 1
                  /\ keys'[k].notes_history[1].action = "marked_fixed"
                  /\ Tail(keys'[k].notes_history) = keys[k].notes_history
             ELSE /\ last'.code = 400
                  /\ keys' = keys
                  /\ repair_requests' = repair_requests]_vars

\* Mark-fixed has just succeeded on a key that had two pending requests: one
\* is fixed, the other still pending.
MarkFixedWitness ==
  /\ last.op = "mark_fixed" /\ last.code = 200
  /\ keys[last.key].attention_status = FIXED
  /\ \E r \in Range(repair_requests) : r.key_id = last.key /\ r.status = "fixed"
  /\ \E r \in Range(repair_requests) : r.key_id = last.key /\ r.status = "pending"


\* ------------------------------------------------------------ PDI status

\* The PDI status transition: the new status is written, with an audit-log
\* entry, only when it differs from the key's current PDI status.
valid_pdi_status(status) == status \in VALID_PDI_STATUSES

pdi_status_changed_always(key, status) == TRUE

pdi_status_changed(key, status) == key.pdi_status /= status

pdi_audit_entry(key, data, user) ==
  [key_id |-> key.id,
   previous_status |-> key.pdi_status,
   new_status |-> data.status,
   changed_by_user_id |-> user.id,
   notes |-> data.notes,
   changed_at |-> now]

update_pdi_status(uid, key_id, data) ==
  LET user == get_current_user(uid)
      i == find_key(key_id)
      req == Req("pdi_status", uid, key_id, data)
  IN
  IF user = Null THEN Reject(Rsp(req, 401))
  ELSE IF i = 0 THEN Reject(Rsp(req, 404))
  ELSE IF ~valid_pdi_status(data.status) THEN Reject(Rsp(req, 400))
  ELSE IF ~pdi_status_changed(keys[i], data.status) THEN Reject(RspBody(req, 200, keys[i]))
  ELSE
    LET k1 == [keys[i] EXCEPT !.pdi_status = data.status,
                              !.pdi_last_updated_by_user_id = user.id]
    IN /\ keys' = [keys EXCEPT ![i] = k1]
       /\ pdi_audit_log' = Append(pdi_audit_log, pdi_audit_entry(keys[i], data, user))
       /\ last' = RspBody(req, 200, k1)
       /\ cycle' = cycle
       /\ UNCHANGED <<procs, tokens, invites, sales_goals, daily_activities, users, dealerships,
                      key_history, repair_requests, time_alerts, uuid, now>>

PdiInputs == VALID_PDI_STATUSES \cup {"invalid_status"}
PdiNotes == {None, "PDI complete"}

InitPdi == KeyedStore(MaxKeys)

NextPdi ==
  \E u \in Callers, k \in DOMAIN keys, s \in PdiInputs, n \in PdiNotes :
     /\ Len(pdi_audit_log) < MaxAudit
     /\ update_pdi_status(u, k, [status |-> s, notes |-> n])

SpecPdi == InitPdi /\ [][NextPdi]_vars

\* C4: a PDI-status update to the key's current pdi_status changes nothing and
\* adds no audit-log entry; an update to a different status appends exactly one
\* entry whose previous_status is the key's pdi_status just before the update
\* and whose new_status is the requested status.
PdiAuditOnChangeOnly ==
  [][\A u \in Callers, k \in DOMAIN keys, s \in VALID_PDI_STATUSES, n \in PdiNotes :
        update_pdi_status(u, k, [status |-> s, notes |-> n])
          => IF s = keys[k].pdi_status
             THEN /\ pdi_audit_log' = pdi_audit_log
                  /\ keys' = keys
             ELSE /\ Len(pdi_audit_log') = Len(pdi_audit_log) + 1
                  /\ \A j \in DOMAIN pdi_audit_log : pdi_audit_log'[j] = pdi_audit_log[j]
                  /\ LET e == pdi_audit_log'[Len(pdi_audit_log')]
                     IN /\ e.key_id = k
                        /\ e.previous_status = keys[k].pdi_status
                        /\ e.new_status = s
                  /\ keys'[k].pdi_status = s]_vars

\* A key went not_pdi_yet -> in_progress -> finished: two entries, each
\* starting where the key stood, whether or not finished was asked for again.
PdiAuditOnChangeOnlyWitness ==
  /\ last.op = "pdi_status" /\ last.code = 200
  /\ last.body.pdi_status = FINISHED
  /\ Len(pdi_audit_log) = 2
  /\ pdi_audit_log[1].previous_status = NOT_PDI_YET
  /\ pdi_audit_log[1].new_status = IN_PROGRESS
  /\ pdi_audit_log[2].previous_status = IN_PROGRESS
  /\ pdi_audit_log[2].new_status = FINISHED
  /\ pdi_audit_log[2].key_id = last.key

\* ------------------------------------------------------------ time alerts

\* The clock counts ticks of 1/TicksPerMinute minute, so that a duration need
\* not be a whole number of minutes.
create_time_alert(uid, data) ==
  LET user == get_current_user(uid)
      req == Req("create_time_alert", uid, 0, data)
  IN
  IF user = Null THEN Reject(Rsp(req, 401))
  ELSE IF ~require_role(user, {OWNER, DEALERSHIP_ADMIN}) THEN Reject(Rsp(req, 403))
  ELSE
    LET doc == [id |-> NewId("time_alerts"),
                dealership_id |-> data.dealership_id,
                alert_minutes |-> data.alert_minutes,
                is_active |-> data.is_active]
    IN /\ time_alerts' = Append(time_alerts, doc)
       /\ uuid' = Bump("time_alerts")
       /\ last' = RspBody(req, 200, doc)
       /\ UNCHANGED <<procs, tokens, invites, users, dealerships, keys, key_history, repair_requests,
                      pdi_audit_log, sales_goals, daily_activities, now, cycle>>

update_time_alert(uid, alert_id, alert_minutes, is_active) ==
  LET user == get_current_user(uid)
      j == First({n \in DOMAIN time_alerts : time_alerts[n].id = alert_id})
      req == Req("update_time_alert", uid, 0, [alert_id |-> alert_id])
  IN
  IF user = Null THEN Reject(Rsp(req, 401))
  ELSE IF ~require_role(user, {OWNER, DEALERSHIP_ADMIN}) THEN Reject(Rsp(req, 403))
  ELSE IF j = 0 THEN Reject(Rsp(req, 404))
  ELSE
    LET a1 == [time_alerts[j] EXCEPT !.alert_minutes = alert_minutes,
                                     !.is_active = is_active]
    IN /\ time_alerts' = [time_alerts EXCEPT ![j] = a1]
       /\ last' = RspBody(req, 200, a1)
       /\ UNCHANGED <<procs, tokens, invites, users, dealerships, keys, key_history, repair_requests,
                      pdi_audit_log, sales_goals, daily_activities, uuid, now, cycle>>

\* {a["dealership_id"]: a["alert_minutes"] for a in alerts if a["is_active"]},
\* then .get(dealership_id, 30): of the active alerts of the dealership the
\* one stored last.
alert_map_get(alerts, dealership_id) ==
  LET hits == {n \in DOMAIN alerts :
                 alerts[n].is_active /\ alerts[n].dealership_id = dealership_id}
  IN IF hits = {} THEN DEFAULT_ALERT_MINUTES
     ELSE alerts[CHOOSE n \in hits : \A m \in hits : m <= n].alert_minutes

\* elapsed = (now - checked_out_at).total_seconds() / 60, kept in ticks
elapsed_ticks(checkout) == now - checkout.checked_out_at

is_overdue_inclusive(elapsed, alert_minutes) == elapsed >= alert_minutes * TicksPerMinute

\* elapsed > alert_minutes
is_overdue(elapsed, alert_minutes) == elapsed > alert_minutes * TicksPerMinute

\* int(x) of a non-negative number of ticks, in minutes
int_minutes(ticks) == ticks \div TicksPerMinute

RECURSIVE overdue_keys(_, _, _)
overdue_keys(found, alerts, n) ==
  IF n > Len(found) THEN <<>>
  ELSE
    LET key == found[n]
        alert_minutes == alert_map_get(alerts, key.dealership_id)
        checkout == key.current_checkout
        rest == overdue_keys(found, alerts, n + 1)
    IN IF checkout /= Null /\ is_overdue(elapsed_ticks(checkout), alert_minutes)
       THEN <<key @@ [overdue_minutes |->
                         int_minutes(elapsed_ticks(checkout) - alert_minutes * TicksPerMinute),
                      elapsed_minutes |-> int_minutes(elapsed_ticks(checkout))]>> \o rest
       ELSE rest

in_scope(user, doc) == user.role = OWNER \/ doc.dealership_id = user.dealership_id

get_overdue_keys(uid) ==
  LET user == get_current_user(uid)
      req == Req("overdue", uid, 0, Null)
  IN
  IF user = Null THEN Reject(Rsp(req, 401))
  ELSE
    LET InScope(d) == in_scope(user, d)
        CheckedOut(k) == InScope(k) /\ k.status = CHECKED_OUT
        alerts == SelectSeq(time_alerts, InScope)
        found == SelectSeq(keys, CheckedOut)
    IN Reject(RspBody(req, 200, overdue_keys(found, alerts, 1)))

\* Time passes.
Advance(ticks) ==
  /\ now' = now + ticks
  /\ UNCHANGED <<procs, tokens, db, last, cycle>>

OverdueStore ==
  /\ users = <<user_doc(1, "owner@keyflow.app", OWNER, NoId),
               user_doc(2, "admin@d1", DEALERSHIP_ADMIN, 1),
               user_doc(3, None, USER, 1),
               user_doc(4, None, USER, 2)>>
  /\ dealerships = <<dealership_doc(1, "d1"), dealership_doc(2, "d2")>>
  /\ keys = <<new_key_doc(1, Text("A1"), Text("new"), 1),
              new_key_doc(2, Text("A1"), Text("new"), 2)>>
  /\ key_history = <<>>
  /\ repair_requests = <<>>
  /\ time_alerts = <<>>
  /\ pdi_audit_log = <<>>
  /\ invites = <<>>
  /\ sales_goals = <<>>
  /\ daily_activities = <<>>
  /\ tokens = {}
  /\ procs = NoProcs
  /\ uuid = [c \in {"users", "dealerships", "repair_requests", "time_alerts", "invites", "sales"} |->
               IF c = "users" THEN 4 ELSE IF c = "dealerships" THEN 2 ELSE 0]
  /\ now = 0
  /\ last = NoRequest
  /\ cycle = NoCycle

OverdueCallers == {1, 3, 4}
ClockEnd == DEFAULT_ALERT_MINUTES * TicksPerMinute + MaxExtraTicks
ShortAlert == [dealership_id : {1, 2}, alert_minutes : {1}, is_active : {TRUE}]

InitOverdue == OverdueStore

NextOverdue ==
  \/ \E t \in {1, DEFAULT_ALERT_MINUTES * TicksPerMinute} :
       /\ now + t <= ClockEnd
       /\ Advance(t)
  \/ \E k \in DOMAIN keys :
       /\ now <= MaxCheckoutTick
       /\ checkout_key(3, k, CheckoutData(None, FALSE, <<>>))
  \/ \E d \in ShortAlert :
       /\ Len(time_alerts) < MaxAlerts
       /\ create_time_alert(2, d)
  \/ \E a \in 1..MaxAlerts, act \in BOOLEAN : update_time_alert(2, a, 1, act)
  \/ \E u \in OverdueCallers : get_overdue_keys(u)

SpecOverdue == InitOverdue /\ [][NextOverdue]_vars

\* The threshold of a dealership: the alert_minutes of its active alert (the
\* one stored last if it has several), 30 if it has no active alert.
Threshold(dealership_id) ==
  IF \E a \in Range(time_alerts) : a.is_active /\ a.dealership_id = dealership_id
  THEN LET n == CHOOSE n \in DOMAIN time_alerts :
                  /\ time_alerts[n].is_active
                  /\ time_alerts[n].dealership_id = dealership_id
                  /\ \A m \in (n + 1)..Len(time_alerts) :
                        ~(time_alerts[m].is_active /\ time_alerts[m].dealership_id = dealership_id)
       IN time_alerts[n].alert_minutes
  ELSE 30

ImportRows ==
  {[condition |-> Text("new"), stock_number |-> Text("A1")],
   [condition |-> Text("new"), stock_number |-> Padded("A1")],
   [condition |-> Caps("used"), stock_number |-> Text("B2")],
   [condition |-> Text("demo"), stock_number |-> Text("B2")]}

RowLists == UNION {[1..n -> ImportRows] : n \in 1..MaxRows}

InitBulk == StaffedStore

NextBulk ==
  \/ \E rows \in RowLists :
       /\ Len(keys) + Len(rows) <= MaxImported
       /\ bulk_import_keys(2, [dealership_id |-> 1, keys |-> rows])
  \/ \E k \in DOMAIN keys :
       /\ keys[k].is_active
       /\ update_key(2, k, KeyUpdateData(Null, "false"))

SpecBulk == InitBulk /\ [][NextBulk]_vars

\* C6: in a bulk import every row is handled on its own.  A row gets one entry
\* in the error list and no key when its condition is not new/used or its
\* stock number, as a key would store it, is that of an active key of the
\* dealership, one inserted by an earlier row of the request included; every
\* other row creates one key; the keys stored before and those of earlier
\* rows stay; imported is the number of keys created and imported + error
\* entries = total_submitted.
BulkImportRowByRow ==
  [][\A rows \in RowLists :
        bulk_import_keys(2, [dealership_id |-> 1, keys |-> rows])
          => LET body == last'.body
                 Failed(i) == \E e \in Range(body.errors) : e.row = i
                 Good == {i \in DOMAIN rows : ~Failed(i)}
                 \* the position among the new keys of the key of good row i
                 Slot(i) == Len(keys) + Cardinality({j \in Good : j <= i})
                 Refused(i) ==
                   \/ rows[i].condition.core \notin {"new", "used"}
                   \/ \E k \in Range(keys) :
                         /\ k.dealership_id = 1 /\ k.is_active
                         /\ k.stock_number = strip(rows[i].stock_number)
                   \/ \E j \in Good :
                         /\ j < i
                         /\ keys'[Slot(j)].stock_number = strip(rows[i].stock_number)
             IN /\ last'.code = 200
                /\ \A i \in DOMAIN keys : keys'[i] = keys[i]
                /\ Len(keys') = Len(keys) + Cardinality(Good)
                /\ body.imported = Cardinality(Good)
                /\ body.total_submitted = Len(rows)
                /\ body.imported + Len(body.errors) = body.total_submitted
                /\ \A i \in DOMAIN rows :
                      /\ Failed(i) <=> Refused(i)
                      /\ Cardinality({n \in DOMAIN body.errors : body.errors[n].row = i})
                           = IF Refused(i) THEN 1 ELSE 0
                /\ \A i \in Good :
                      /\ keys'[Slot(i)].dealership_id = 1
                      /\ keys'[Slot(i)].is_active
                      /\ keys'[Slot(i)].stock_number.core = rows[i].stock_number.core]_vars

\* ------------------------------------------------------------ demo limits

\* The store after a demo login: the demo dealership and its demo admin.
DemoStore ==
  /\ users = <<user_doc(1, "owner@keyflow.app", OWNER, NoId),
               [user_doc(2, "demo@keyflow.app", DEALERSHIP_ADMIN, 1) EXCEPT !.is_demo = TRUE]>>
  /\ dealerships = <<[dealership_doc(1, "Demo Dealership") EXCEPT !.is_demo = TRUE]>>
  /\ keys = <<>>
  /\ key_history = <<>>
  /\ repair_requests = <<>>
  /\ time_alerts = <<>>
  /\ pdi_audit_log = <<>>
  /\ invites = <<>>
  /\ sales_goals = <<>>
  /\ daily_activities = <<>>
  /\ tokens = {}
  /\ procs = NoProcs
  /\ uuid = [c \in {"users", "dealerships", "repair_requests", "time_alerts", "invites", "sales"} |->
               IF c = "users" THEN 2 ELSE IF c = "dealerships" THEN 1 ELSE 0]
  /\ now = 0
  /\ last = NoRequest
  /\ cycle = NoCycle

DemoRows == {[condition |-> Text("used"), stock_number |-> Text("B2")]}
DemoRowLists == UNION {[1..n -> DemoRows] : n \in 1..MaxRows}

InitDemo == DemoStore

NextDemo ==
  \/ \E u \in {1, 2} :
       /\ Len(keys) < MaxDemoKeys
       /\ create_key(u, KeyData(Text("A1"), 1))
  \/ \E rows \in DemoRowLists :
       /\ Len(keys) + Len(rows) <= MaxDemoKeys
       /\ bulk_import_keys(2, [dealership_id |-> 1, keys |-> rows])
  \/ \E k \in DOMAIN keys, a \in {"false", "true"} :
       update_key(2, k, KeyUpdateData(Null, a))

SpecDemo == InitDemo /\ [][NextDemo]_vars

ActiveKeys(dealership_id) ==
  {k \in Range(keys) : k.dealership_id = dealership_id /\ k.is_active}

\* C7: for the demo user, create-key succeeds while the demo dealership has
\* fewer than 4 active keys and is rejected with 403, creating no key, once
\* it has 4 or more; a demo bulk import whose rows added to the active keys
\* exceed 4 is rejected with 403 and creates no key.
DemoKeyLimit ==
  [][/\ create_key(2, KeyData(Text("A1"), 1))
          => IF Cardinality(ActiveKeys(1)) < 4
             THEN /\ last'.code = 200
                  /\ Len(keys') = Len(keys) + 1
                  /\ Cardinality({k \in Range(keys') : k.dealership_id = 1 /\ k.is_active})
                       = Cardinality(ActiveKeys(1)) + 1
             ELSE /\ last'.code = 403
                  /\ keys' = keys
     /\ \A rows \in DemoRowLists :
          (/\ bulk_import_keys(2, [dealership_id |-> 1, keys |-> rows])
           /\ Cardinality(ActiveKeys(1)) + Len(rows) > 4)
             => /\ last'.code = 403
                /\ keys' = keys]_vars

\* The demo user has just been refused a 5th key.
DemoKeyLimitWitness ==
  /\ last.op = "create_key" /\ last.code = 403
  /\ Cardinality(ActiveKeys(1)) = 4
  /\ Len(keys) = 4

\* ------------------------------------------------------------ admin PIN

\* A PIN is the sequence of its characters.
Digits == {"0", "1", "2", "3", "4", "5", "6", "7", "8", "9"}
isdigit(pin) == pin /= <<>> /\ \A i \in DOMAIN pin : pin[i] \in Digits

\* not pin.isdigit() or len(pin) < 4 or len(pin) > 6
invalid_pin(pin) == ~isdigit(pin) \/ Len(pin) < PIN_MIN_LEN \/ Len(pin) > PIN_MAX_LEN

DEFAULT_ADMIN_PIN == <<"0", "0", "0", "0">>

\* An admin_pin that is None or "": both are falsy in data.admin_pin or "0000".
NoPin == <<>>

\* bcrypt.gensalt()
Salts == {"salt1", "salt2"}

\* find_one({"dealership_id": ..., "role": dealership_admin})
find_admin(dealership_id) ==
  First({j \in DOMAIN users :
           users[j].role = DEALERSHIP_ADMIN /\ users[j].dealership_id = dealership_id})

find_user_by_email(email) == First({j \in DOMAIN users : users[j].email = email})

create_dealership(uid, data, salt) ==
  LET user == get_current_user(uid)
      req == Req("create_dealership", uid, 0, data)
      dealership_id == NewId("dealerships")
      doc == dealership_doc(dealership_id, data.name)
      admin_pin == IF data.admin_pin = NoPin THEN DEFAULT_ADMIN_PIN ELSE data.admin_pin
  IN
  IF user = Null THEN Reject(Rsp(req, 401))
  ELSE IF ~require_role(user, {OWNER}) THEN Reject(Rsp(req, 403))
  ELSE
    /\ dealerships' = Append(dealerships, doc)
    /\ IF Truthy(data.admin_email) /\ Truthy(data.admin_password)
       THEN IF find_user_by_email(data.admin_email) /= 0
            THEN /\ last' = Rsp(req, 400)
                 /\ uuid' = Bump("dealerships")
                 /\ users' = users
            ELSE IF invalid_pin(admin_pin)
            THEN /\ last' = Rsp(req, 400)
                 /\ uuid' = Bump("dealerships")
                 /\ users' = users
            ELSE
              LET admin_id == NewId("users")
                  admin_doc == [user_doc(admin_id, data.admin_email, DEALERSHIP_ADMIN,
                                         dealership_id)
                                  EXCEPT !.admin_pin = hash_password(admin_pin, salt),
                                         !.name = Text("dealer Admin")]
              IN /\ users' = Append(users, admin_doc)
                 /\ uuid' = [uuid EXCEPT !["dealerships"] = @ + 1, !["users"] = @ + 1]
                 /\ last' = RspBody(req, 200, doc)
       ELSE /\ last' = RspBody(req, 200, doc)
            /\ uuid' = Bump("dealerships")
            /\ users' = users
    /\ UNCHANGED <<procs, tokens, invites, keys, key_history, repair_requests, time_alerts,
                   pdi_audit_log, sales_goals, daily_activities, now, cycle>>

\* The status code admin_pin_login answers with.
admin_pin_login_code_any_pin(dealership_id, pin) ==
  LET j == find_admin(dealership_id)
  IN IF j = 0 THEN 401
     ELSE IF users[j].admin_pin = Null THEN 401
     ELSE 200

admin_pin_login_code(dealership_id, pin) ==
  LET j == find_admin(dealership_id)
  IN IF j = 0 THEN 401
     ELSE IF users[j].admin_pin = Null THEN 401
     ELSE IF ~verify_password(pin, users[j].admin_pin) THEN 401
     ELSE 200

admin_pin_login(data) ==
  LET req == Req("admin_pin_login", NoId, 0, data)
      code == admin_pin_login_code(data.dealership_id, data.pin)
  IN IF code /= 200 THEN Reject(Rsp(req, code))
     ELSE Reject(RspBody(req, 200, [user_id |-> users[find_admin(data.dealership_id)].id]))

change_admin_pin(uid, data, salt) ==
  LET user == get_current_user(uid)
      req == Req("change_admin_pin", uid, 0, data)
  IN
  IF user = Null THEN Reject(Rsp(req, 401))
  ELSE IF ~require_role(user, {DEALERSHIP_ADMIN}) THEN Reject(Rsp(req, 403))
  ELSE IF user.admin_pin /= Null /\ ~verify_password(data.current_pin, user.admin_pin)
    THEN Reject(Rsp(req, 401))
  ELSE IF invalid_pin(data.new_pin) THEN Reject(Rsp(req, 400))
  ELSE
    LET j == First({n \in DOMAIN users : users[n].id = uid})
    IN /\ users' = [users EXCEPT ![j].admin_pin = hash_password(data.new_pin, salt)]
       /\ last' = Rsp(req, 200)
       /\ UNCHANGED <<procs, tokens, invites, dealerships, keys, key_history, repair_requests, time_alerts,
                      pdi_audit_log, sales_goals, daily_activities, uuid, now, cycle>>

change_user_pin(uid, current_pin, new_pin, salt) ==
  LET user == get_current_user(uid)
      req == Req("change_user_pin", uid, 0, Null)
  IN
  IF user = Null THEN Reject(Rsp(req, 401))
  ELSE
    LET current_pin_hash == IF user.pin /= Null THEN user.pin ELSE user.admin_pin
        j == First({n \in DOMAIN users : users[n].id = uid})
    IN IF current_pin_hash /= Null /\ ~verify_password(current_pin, current_pin_hash)
         THEN Reject(Rsp(req, 401))
       ELSE IF invalid_pin(new_pin) THEN Reject(Rsp(req, 400))
       ELSE
         /\ users' = IF user.role = DEALERSHIP_ADMIN
                     THEN [users EXCEPT ![j].admin_pin = hash_password(new_pin, salt)]
                     ELSE [users EXCEPT ![j].pin = hash_password(new_pin, salt)]
         /\ last' = Rsp(req, 200)
         /\ UNCHANGED <<procs, tokens, invites, dealerships, keys, key_history, repair_requests, time_alerts,
                        pdi_audit_log, sales_goals, daily_activities, uuid, now, cycle>>

\* The store after the owner's first login.
OwnerStore ==
  /\ users = <<user_doc(1, "owner@keyflow.app", OWNER, NoId)>>
  /\ dealerships = <<>>
  /\ keys = <<>>
  /\ key_history = <<>>
  /\ repair_requests = <<>>
  /\ time_alerts = <<>>
  /\ pdi_audit_log = <<>>
  /\ invites = <<>>
  /\ sales_goals = <<>>
  /\ daily_activities = <<>>
  /\ tokens = {}
  /\ procs = NoProcs
  /\ uuid = [c \in {"users", "dealerships", "repair_requests", "time_alerts", "invites", "sales"} |->
               IF c = "users" THEN 1 ELSE 0]
  /\ now = 0
  /\ last = NoRequest
  /\ cycle = NoCycle

Pin1234 == <<"1", "2", "3", "4">>
Pin5555 == <<"5", "5", "5", "5">>
ValidPins == {Pin1234, Pin5555, DEFAULT_ADMIN_PIN}
Pins == ValidPins \cup {<<"1", "2", "3">>}
CreatePins == {Pin1234, NoPin, <<"1", "2", "a", "4">>}
ChangePins == {Pin1234, Pin5555}
NewPins == ChangePins \cup {<<"1", "2", "3">>}
AdminEmails == {None, "admin1@test.com", "admin2@test.com"}
DealershipData(admin_email, admin_pin) ==
  [name |-> "dealer", admin_email |-> admin_email, admin_password |-> "testpass123",
   admin_pin |-> admin_pin]
DealershipIds == 1..MaxDealerships
UserIds == 1..MaxUsers

InitAuth == OwnerStore

NextAuth ==
  \/ \E e \in AdminEmails, p \in CreatePins, salt \in Salts :
       /\ Len(dealerships) < MaxDealerships
       /\ create_dealership(1, DealershipData(e, p), salt)
  \/ \E d \in DealershipIds, p \in Pins :
       admin_pin_login([dealership_id |-> d, pin |-> p])
  \/ \E u \in UserIds, cur \in ChangePins, new \in NewPins :
       change_admin_pin(u, [current_pin |-> cur, new_pin |-> new], "salt2")
  \/ \E u \in UserIds, cur \in ChangePins, new \in ChangePins :
       change_user_pin(u, cur, new, "salt1")

SpecAuth == InitAuth /\ [][NextAuth]_vars

\* C8: a dealership created with admin credentials and PIN p (0000 when none
\* is given) admits the
\* admin-PIN login with p and answers 401 to every other PIN; once the admin has
\* changed the PIN to q the login admits q and answers 401 to every other PIN,
\* the old one included; no other step changes what the login answers or which
\* admin it finds.
AdminPinLoginFollowsPin ==
  [][LET Created(d, p) ==
           /\ last'.op = "create_dealership"
           /\ Len(dealerships') = d
           /\ \E e \in AdminEmails \ {None}, salt \in Salts, sent \in CreatePins :
                 /\ p = IF sent = NoPin THEN DEFAULT_ADMIN_PIN ELSE sent
                 /\ create_dealership(1, DealershipData(e, sent), salt)
         Changed(d, q) ==
           /\ last'.op \in {"change_admin_pin", "change_user_pin"}
           /\ find_admin(d) /= 0
           /\ \E cur \in ChangePins, salt \in Salts :
                 \/ change_admin_pin(users[find_admin(d)].id,
                                     [current_pin |-> cur, new_pin |-> q], salt)
                 \/ change_user_pin(users[find_admin(d)].id, cur, q, salt)
         PinSet(d, p) == Created(d, p) \/ Changed(d, p)
         Kept(d) ==
           /\ \A x \in Pins : admin_pin_login_code(d, x)' = admin_pin_login_code(d, x)
           /\ find_admin(d) /= 0 => find_admin(d)' = find_admin(d)
     IN IF last'.code = 200
           /\ last'.op \in {"create_dealership", "change_admin_pin", "change_user_pin"}
        THEN \A d \in DealershipIds :
                /\ \A p \in ValidPins :
                      PinSet(d, p)
                        => \A x \in Pins :
                              admin_pin_login_code(d, x)' = IF x = p THEN 200 ELSE 401
                /\ ~(\E p \in ValidPins : PinSet(d, p)) => Kept(d)
        ELSE /\ \A d \in DealershipIds : Kept(d)
             /\ last'.op = "admin_pin_login"
                  => /\ users' = users
                     /\ \A d \in DealershipIds, x \in Pins :
                           (/\ admin_pin_login([dealership_id |-> d, pin |-> x])
                            /\ last'.code = 200)
                             => last'.body.user_id = users[find_admin(d)].id]_vars

\* The admin of the first dealership changed the PIN to 5555, which no
\* dealership is created with: a login has just been refused, 5555 is the PIN
\* the login admits and 1234 is not.
AdminPinLoginFollowsPinWitness ==
  /\ last.op = "admin_pin_login" /\ last.code = 401
  /\ find_admin(1) /= 0
  /\ admin_pin_login_code(1, Pin5555) = 200
  /\ admin_pin_login_code(1, Pin1234) = 401
  /\ \A j \in DOMAIN users : users[j].role = DEALERSHIP_ADMIN => users[j].dealership_id = 1

\* ------------------------------------------------------------ tenants

get_key(uid, key_id) ==
  LET user == get_current_user(uid)
      i == find_key(key_id)
      req == Req("get_key", uid, key_id, Null)
  IN
  IF user = Null THEN Reject(Rsp(req, 401))
  ELSE IF i = 0 THEN Reject(Rsp(req, 404))
  ELSE Reject(RspBody(req, 200, keys[i]))

\* Two dealerships with one key each; users 2 and 3 belong to the first, user
\* 4 to the second.
InitTenant == OverdueStore

TenantCallers == {2, 3, 4}

NextTenant ==
  \/ \E u \in TenantCallers, k \in DOMAIN keys : get_key(u, k)
  \/ \E u \in TenantCallers, k \in DOMAIN keys :
       update_key(u, k, KeyUpdateData(Text("B2"), None))
  \/ \E u \in TenantCallers, k \in DOMAIN keys, na \in BOOLEAN :
       /\ HistoryRoom /\ RepairRoom
       /\ checkout_key(u, k, CheckoutData(None, na, <<>>))
  \/ \E u \in TenantCallers, k \in DOMAIN keys :
       /\ HistoryRoom
       /\ return_key(u, k, [notes |-> None])
  \/ \E u \in TenantCallers, k \in DOMAIN keys :
       /\ HistoryRoom
       /\ move_to_bay(u, k, "bay2")
  \/ \E u \in TenantCallers, k \in DOMAIN keys :
       /\ NotesRoom
       /\ mark_key_fixed(u, k, [notes |-> None])
  \/ \E u \in TenantCallers, k \in DOMAIN keys :
       /\ keys[k].images = <<>>
       /\ add_key_images(u, k, <<"img1">>)

SpecTenant == InitTenant /\ [][NextTenant]_vars

\* C11: a key operation (get, update, checkout, return, move-bay, mark-fixed,
\* add-images) of a non-owner caller on a key of another dealership is answered
\* 403 and leaves the keys, the key history and the repair requests unchanged.
KeyOperationsDealershipScoped ==
  [][\A u \in TenantCallers, k \in DOMAIN keys :
        (/\ get_current_user(u).dealership_id /= keys[k].dealership_id
         /\ \/ get_key(u, k)
            \/ update_key(u, k, KeyUpdateData(Text("B2"), None))
            \/ \E na \in BOOLEAN : checkout_key(u, k, CheckoutData(None, na, <<>>))
            \/ return_key(u, k, [notes |-> None])
            \/ move_to_bay(u, k, "bay2")
            \/ mark_key_fixed(u, k, [notes |-> None])
            \/ add_key_images(u, k, <<"img1">>))
          => /\ last'.code = 403
             /\ keys' = keys
             /\ key_history' = key_history
             /\ repair_requests' = repair_requests]_vars

\* ------------------------------------------------------------ staff, dealerships, invites

TicksPerDay == 24 * 60 * TicksPerMinute

find_user(user_id) == First({j \in DOMAIN users : users[j].id = user_id})
find_dealership(dealership_id) ==
  First({j \in DOMAIN dealerships : dealerships[j].id = dealership_id})
find_invite(invite_id) == First({j \in DOMAIN invites : invites[j].id = invite_id})
find_invite_by_token(token) ==
  First({j \in DOMAIN invites : invites[j].token = token})

delete_dealership(uid, dealership_id) ==
  LET user == get_current_user(uid)
      i == find_dealership(dealership_id)
      req == Req("delete_dealership", uid, 0, Null)
  IN
  IF user = Null THEN Reject(Rsp(req, 401))
  ELSE IF ~require_role(user, {OWNER}) THEN Reject(Rsp(req, 403))
  ELSE IF i = 0 THEN Reject(Rsp(req, 404))
  ELSE
    /\ dealerships' = RemoveAt(dealerships, i)
    /\ last' = Rsp(req, 200)
    /\ UNCHANGED <<procs, tokens, users, keys, key_history, repair_requests, time_alerts,
                   pdi_audit_log, sales_goals, daily_activities, invites, uuid, now, cycle>>

\* {"$regex": "^name$", "$options": "i"} for a name without regex
\* metacharacters: the stored name read without regard to case.
name_taken(dealership_id, name) ==
  \E j \in DOMAIN users :
    /\ users[j].dealership_id = dealership_id
    /\ lower(users[j].name) = lower(name)

demo_user_limit_reached(dealership_id) ==
  Cardinality({j \in DOMAIN users :
                 users[j].dealership_id = dealership_id /\ ~users[j].is_demo})
    >= DEMO_MAX_USERS

create_user(uid, data, salt) ==
  LET user == get_current_user(uid)
      req == Req("create_user", uid, 0, data)
      user_id == NewId("users")
  IN
  IF user = Null THEN Reject(Rsp(req, 401))
  ELSE IF ~require_role(user, {OWNER, DEALERSHIP_ADMIN}) THEN Reject(Rsp(req, 403))
  ELSE IF user.role = DEALERSHIP_ADMIN /\ data.dealership_id /= user.dealership_id
    THEN Reject(Rsp(req, 403))
  ELSE IF is_demo(user) /\ demo_user_limit_reached(data.dealership_id)
    THEN Reject(Rsp(req, 403))
  ELSE IF invalid_pin(data.pin) THEN Reject(Rsp(req, 400))
  ELSE IF name_taken(data.dealership_id, data.name) THEN Reject(Rsp(req, 400))
  ELSE IF Truthy(data.email) /\ find_user_by_email(data.email) /= 0
    THEN Reject(Rsp(req, 400))
  ELSE
    /\ users' = Append(users,
                       [user_doc(user_id, data.email, data.role, data.dealership_id)
                          EXCEPT !.name = data.name,
                                 !.pin = hash_password(data.pin, salt)])
    /\ uuid' = Bump("users")
    /\ last' = RspBody(req, 200, [id |-> user_id])
    /\ UNCHANGED <<procs, tokens, dealerships, keys, key_history, repair_requests, time_alerts,
                   pdi_audit_log, sales_goals, daily_activities, invites, now, cycle>>

delete_user(uid, user_id) ==
  LET user == get_current_user(uid)
      j == find_user(user_id)
      req == Req("delete_user", uid, 0, Null)
  IN
  IF user = Null THEN Reject(Rsp(req, 401))
  ELSE IF ~require_role(user, {OWNER, DEALERSHIP_ADMIN}) THEN Reject(Rsp(req, 403))
  ELSE IF j = 0 THEN Reject(Rsp(req, 404))
  ELSE IF user.role = DEALERSHIP_ADMIN /\ users[j].dealership_id /= user.dealership_id
    THEN Reject(Rsp(req, 403))
  ELSE
    /\ users' = RemoveAt(users, j)
    /\ last' = Rsp(req, 200)
    /\ UNCHANGED <<procs, tokens, dealerships, keys, key_history, repair_requests, time_alerts,
                   pdi_audit_log, sales_goals, daily_activities, invites, uuid, now, cycle>>

\* register: no token, any role and dealership the request names.
register(data) ==
  LET req == Req("register", NoId, 0, data)
      user_id == NewId("users")
  IN
  IF find_user_by_email(data.email) /= 0 THEN Reject(Rsp(req, 400))
  ELSE
    /\ users' = Append(users,
                       [user_doc(user_id, data.email, data.role, data.dealership_id)
                          EXCEPT !.name = data.name])
    /\ uuid' = Bump("users")
    /\ last' = RspBody(req, 200, [id |-> user_id])
    /\ UNCHANGED <<procs, tokens, dealerships, keys, key_history, repair_requests, time_alerts,
                   pdi_audit_log, sales_goals, daily_activities, invites, now, cycle>>

create_invite(uid, data) ==
  LET user == get_current_user(uid)
      req == Req("create_invite", uid, 0, data)
      i == find_dealership(data.dealership_id)
  IN
  IF user = Null THEN Reject(Rsp(req, 401))
  ELSE IF ~require_role(user, {OWNER, DEALERSHIP_ADMIN}) THEN Reject(Rsp(req, 403))
  ELSE IF user.role = DEALERSHIP_ADMIN /\ data.dealership_id /= user.dealership_id
    THEN Reject(Rsp(req, 403))
  ELSE IF data.role \notin {DEALERSHIP_ADMIN, USER} THEN Reject(Rsp(req, 400))
  ELSE IF user.role = DEALERSHIP_ADMIN /\ data.role = DEALERSHIP_ADMIN
    THEN Reject(Rsp(req, 403))
  ELSE IF i = 0 THEN Reject(Rsp(req, 404))
  ELSE
    LET doc == [id |-> NewId("invites"),
                token |-> NewId("invites"),
                dealership_id |-> data.dealership_id,
                dealership_name |-> dealerships[i].name,
                role |-> data.role,
                created_by |-> user.id,
                created_at |-> now,
                expires_at |-> now + data.expires_in_days * TicksPerDay,
                is_used |-> FALSE,
                used_by |-> NoId]
    IN /\ invites' = Append(invites, doc)
       /\ uuid' = Bump("invites")
       /\ last' = RspBody(req, 200, doc)
       /\ UNCHANGED <<procs, tokens, users, dealerships, keys, key_history, repair_requests,
                      time_alerts, pdi_audit_log, sales_goals, daily_activities, now, cycle>>

\* sort("created_at", -1): newest first, equal times in stored order.
RECURSIVE newest_first(_)
newest_first(docs) ==
  IF docs = <<>> THEN <<>>
  ELSE LET n == Len(docs)
           acc == newest_first(SubSeq(docs, 1, n - 1))
           k == Cardinality({j \in DOMAIN acc : acc[j].created_at >= docs[n].created_at})
       IN SubSeq(acc, 1, k) \o <<docs[n]>> \o SubSeq(acc, k + 1, Len(acc))

get_invites(uid, dealership_id) ==
  LET user == get_current_user(uid)
      req == Req("get_invites", uid, 0, Null)
      Wanted(doc) == IF user.role = OWNER
                     THEN dealership_id = NoId \/ doc.dealership_id = dealership_id
                     ELSE doc.dealership_id = user.dealership_id
  IN
  IF user = Null THEN Reject(Rsp(req, 401))
  ELSE IF ~require_role(user, {OWNER, DEALERSHIP_ADMIN}) THEN Reject(Rsp(req, 403))
  ELSE Reject(RspBody(req, 200, newest_first(SelectSeq(invites, Wanted))))

delete_invite(uid, invite_id) ==
  LET user == get_current_user(uid)
      j == find_invite(invite_id)
      req == Req("delete_invite", uid, 0, Null)
  IN
  IF user = Null THEN Reject(Rsp(req, 401))
  ELSE IF ~require_role(user, {OWNER, DEALERSHIP_ADMIN}) THEN Reject(Rsp(req, 403))
  ELSE IF j = 0 THEN Reject(Rsp(req, 404))
  ELSE IF user.role = DEALERSHIP_ADMIN /\ invites[j].dealership_id /= user.dealership_id
    THEN Reject(Rsp(req, 403))
  ELSE
    /\ invites' = RemoveAt(invites, j)
    /\ last' = Rsp(req, 200)
    /\ UNCHANGED <<procs, tokens, users, dealerships, keys, key_history, repair_requests,
                   time_alerts, pdi_audit_log, sales_goals, daily_activities, uuid, now, cycle>>

invite_expired(invite) == now > invite.expires_at

invite_used_never(invite) == FALSE

invite_used(invite) == invite.is_used

accept_invite(data) ==
  LET req == Req("accept_invite", NoId, 0, data)
      i == find_invite_by_token(data.token)
      user_id == NewId("users")
  IN
  IF i = 0 THEN Reject(Rsp(req, 404))
  ELSE IF invite_used(invites[i]) THEN Reject(Rsp(req, 400))
  ELSE IF invite_expired(invites[i]) THEN Reject(Rsp(req, 400))
  ELSE IF find_user_by_email(data.email) /= 0 THEN Reject(Rsp(req, 400))
  ELSE
    /\ users' = Append(users,
                       [user_doc(user_id, data.email, invites[i].role,
                                 invites[i].dealership_id)
                          EXCEPT !.name = data.name])
    /\ invites' = [invites EXCEPT ![i].is_used = TRUE, ![i].used_by = user_id]
    /\ uuid' = Bump("users")
    /\ last' = RspBody(req, 200, [id |-> user_id])
    /\ UNCHANGED <<procs, tokens, dealerships, keys, key_history, repair_requests, time_alerts,
                   pdi_audit_log, sales_goals, daily_activities, now, cycle>>

\* ------------------------------------------------------------ roles

MaxInvites == 1
MaxCreated == 3

UserData(name, role, dealership_id, email) ==
  [name |-> name, pin |-> <<"1", "2", "3", "4">>, role |-> role,
   dealership_id |-> dealership_id, email |-> email]

InviteData(dealership_id, role, expires_in_days) ==
  [dealership_id |-> dealership_id, role |-> role, expires_in_days |-> expires_in_days]

RoleCallers == {1, 2, 3}

RoleRestrictedOps ==
  {"create_dealership", "delete_dealership", "create_user", "delete_user",
   "create_key", "update_key", "bulk_import", "create_invite", "get_invites",
   "delete_invite", "clear_repair_request", "create_time_alert",
   "update_time_alert"}

\* Requests every signed-in user may make.
ProtectedOps == {"get_key", "return"}

\* Documents created since the store was set up.
Created ==
  (uuid["users"] - 3) + (uuid["dealerships"] - 1) + uuid["invites"]
    + uuid["time_alerts"] + Len(keys)
CreateRoom == Created < MaxCreated

\* The request op of caller u.
Request(u, op) ==
  \/ /\ op = "create_dealership"
     /\ CreateRoom
     /\ uuid["dealerships"] < MaxDealerships
     /\ create_dealership(u, DealershipData(None, NoPin), "salt1")
  \/ /\ op = "delete_dealership"
     /\ \E d \in 1..MaxDealerships : delete_dealership(u, d)
  \/ /\ op = "create_user"
     /\ CreateRoom
     /\ Len(users) < MaxUsers
     /\ uuid["users"] <= MaxUsers
     /\ create_user(u, UserData(Text("zed"), USER, 1, None), "salt1")
  \/ /\ op = "delete_user"
     /\ \E t \in {2, 3} : delete_user(u, t)
  \/ /\ op = "create_key"
     /\ CreateRoom
     /\ Len(keys) < MaxKeys
     /\ create_key(u, KeyData(Text("A1"), 1))
  \/ /\ op = "update_key"
     /\ update_key(u, 1, KeyUpdateData(Text("B2"), None))
  \/ /\ op = "bulk_import"
     /\ CreateRoom
     /\ Len(keys) < MaxKeys
     /\ bulk_import_keys(u, [dealership_id |-> 1,
                             keys |-> <<[condition |-> Text("new"),
                                         stock_number |-> Text("A1")]>>])
  \/ /\ op = "create_invite"
     /\ CreateRoom
     /\ uuid["invites"] < MaxInvites
     /\ create_invite(u, InviteData(1, USER, 7))
  \/ /\ op = "get_invites"
     /\ get_invites(u, NoId)
  \/ /\ op = "delete_invite"
     /\ delete_invite(u, 1)
  \/ /\ op = "clear_repair_request"
     /\ clear_repair_request(u, 1)
  \/ /\ op = "create_time_alert"
     /\ CreateRoom
     /\ Len(time_alerts) < MaxAlerts
     /\ create_time_alert(u, [dealership_id |-> 1, alert_minutes |-> 1, is_active |-> TRUE])
  \/ /\ op = "update_time_alert"
     /\ update_time_alert(u, 1, 1, FALSE)
  \/ /\ op = "get_key"
     /\ get_key(u, 1)
  \/ /\ op = "return"
     /\ return_key(u, 1, [notes |-> None])

InitRoles == StaffedStore

NextRoles == \E u \in RoleCallers, op \in RoleRestrictedOps \cup ProtectedOps : Request(u, op)

SpecRoles == InitRoles /\ [][NextRoles]_vars

\* The roles the specification allows for each role-restricted operation.
AllowedRoles(op) ==
  IF op \in {"create_dealership", "delete_dealership"} THEN {OWNER}
  ELSE {OWNER, DEALERSHIP_ADMIN}

\* C12: a protected request of a caller whose user document has been deleted is
\* answered 401, and a role-restricted request of a caller whose stored role is
\* not among the operation's allowed roles is answered 403; neither changes the
\* stored state.
DeletedOrWrongRoleRejected ==
  [][\A u \in RoleCallers :
       /\ (get_current_user(u) = Null /\ Request(u, last'.op))
            => (last'.code = 401 /\ db' = db)
       /\ (/\ get_current_user(u) /= Null
           /\ last'.op \in RoleRestrictedOps
           /\ get_current_user(u).role \notin AllowedRoles(last'.op)
           /\ Request(u, last'.op))
            => (last'.code = 403 /\ db' = db)]_vars

\* The admin is refused a dealership deletion after user 3 was deleted.
DeletedOrWrongRoleRejectedWitness ==
  /\ get_current_user(3) = Null
  /\ keys /= <<>>
  /\ last.op = "delete_dealership"
  /\ last.code = 403

\* ------------------------------------------------------------ invites

AcceptData(token, email) == [token |-> token, name |-> Text("zed"), email |-> email]

InviteTokens == 1..(MaxInvites + 1)
AcceptEmails == {"admin@d1", "new1@test.com", "new2@test.com"}
InviteClockEnd == TicksPerDay + 1

InitInvite == StaffedStore

NextInvite ==
  \/ \E u \in {1, 2}, role \in {USER, DEALERSHIP_ADMIN}, days \in {0, 1} :
       /\ uuid["invites"] < MaxInvites
       /\ create_invite(u, InviteData(1, role, days))
  \/ \E token \in InviteTokens, email \in AcceptEmails :
       accept_invite(AcceptData(token, email))
  \/ \E i \in InviteTokens : delete_invite(1, i)
  \/ \E t \in {1, TicksPerDay} :
       /\ now + t <= InviteClockEnd
       /\ (now + t) % TicksPerDay <= 1
       /\ Advance(t)

SpecInvite == InitInvite /\ [][NextInvite]_vars

\* The invite is stored, unused and not past its expiry, and the email is new.
Acceptable(data) ==
  LET i == find_invite_by_token(data.token)
  IN /\ i /= 0
     /\ ~invites[i].is_used
     /\ now <= invites[i].expires_at
     /\ \A j \in DOMAIN users : users[j].email /= data.email

\* C13: an accept on an unused, unexpired token with an unregistered email adds
\* exactly one user with the invite's role and dealership and marks the invite
\* used by that user; any other accept adds no user and leaves every invite as
\* it was, with 400 for a used token; and a used invite stays used, so every
\* later accept on it is refused.
InviteSingleUse ==
  [][/\ \A token \in InviteTokens, email \in AcceptEmails :
          (last'.op = "accept_invite" /\ accept_invite(AcceptData(token, email)))
            => LET i == find_invite_by_token(token)
                   n == Len(users)
               IN IF Acceptable(AcceptData(token, email))
                  THEN /\ last'.code = 200
                       /\ Len(users') = n + 1
                       /\ SubSeq(users', 1, n) = users
                       /\ users'[n + 1].role = invites[i].role
                       /\ users'[n + 1].dealership_id = invites[i].dealership_id
                       /\ users'[n + 1].email = email
                       /\ \A j \in 1..n : users[j].id /= users'[n + 1].id
                       /\ invites' = [invites EXCEPT ![i].is_used = TRUE,
                                                    ![i].used_by = users'[n + 1].id]
                  ELSE /\ users' = users
                       /\ invites' = invites
                       /\ last'.code \in {400, 404}
                       /\ (i /= 0 /\ invites[i].is_used) => last'.code = 400
     /\ \A i \in DOMAIN invites, j \in DOMAIN invites' :
          (invites[i].is_used /\ invites'[j].id = invites[i].id)
            => (invites'[j].is_used /\ invites'[j].used_by = invites[i].used_by)]_vars

\* A second accept on a used token was refused after the first created a user.
InviteSingleUseWitness ==
  /\ last.op = "accept_invite"
  /\ last.code = 400
  /\ Len(users) = 4
  /\ \E i \in DOMAIN invites :
       /\ invites[i].is_used
       /\ invites[i].used_by = users[4].id
       /\ users[4].role = invites[i].role
       /\ now <= invites[i].expires_at

\* ------------------------------------------------------------ notes history

NotesClockEnd == MaxNotes
FixedNotes == {None, "fix"}
ReturnNotes == {None, "note"}
NotesSpace == \A i \in DOMAIN keys : Len(keys[i].notes_history) <= MaxNotes
HistorySpace == Len(key_history) <= MaxHistory

\* One key: the handlers touch the notes_history of the named key only.
InitNotes == KeyedStore(1)

NextNotes ==
  \/ \E k \in DOMAIN keys, n \in Notes, na \in BOOLEAN :
       /\ HistorySpace /\ NotesSpace
       /\ na => RepairRoom
       /\ checkout_key(3, k, CheckoutData(n, na, <<>>))
  \/ \E k \in DOMAIN keys, n \in ReturnNotes :
       /\ HistorySpace /\ NotesSpace
       /\ return_key(3, k, [notes |-> n])
  \/ \E k \in DOMAIN keys, n \in FixedNotes :
       /\ NotesSpace
       /\ mark_key_fixed(3, k, [notes |-> n])
  \/ /\ now < NotesClockEnd
     /\ Advance(1)

SpecNotes == InitNotes /\ [][NextNotes]_vars

\* new is old with one entry of the given note and action put in front.
Prepended(new, old, note, action) ==
  /\ Len(new) = Len(old) + 1
  /\ new[1].note = note
  /\ new[1].action = action
  /\ \A j \in DOMAIN old : new[j + 1] = old[j]

\* old is the tail of new.
KeepsEarlier(new, old) ==
  /\ Len(new) >= Len(old)
  /\ \A j \in DOMAIN old : new[Len(new) - Len(old) + j] = old[j]

NewestFirst(history) ==
  \A i, j \in DOMAIN history : i < j => history[i].timestamp >= history[j].timestamp

\* C14: a non-empty note on a successful checkout, return or mark-fixed is put
\* at position 0 of the key's notes_history with that operation's action and
\* the earlier entries follow unchanged in their order; no step alters or
\* removes an earlier entry, and every notes_history is ordered newest first.
NotesPrepended ==
  [][/\ \A k \in DOMAIN keys, n \in Notes \ {None, ""} :
          (last'.op = "checkout" /\ last'.code = 200
           /\ \E na \in BOOLEAN : checkout_key(3, k, CheckoutData(n, na, <<>>)))
            => Prepended(keys'[k].notes_history, keys[k].notes_history, n, "checkout")
     /\ \A k \in DOMAIN keys, n \in ReturnNotes \ {None} :
          (last'.op = "return" /\ last'.code = 200
           /\ return_key(3, k, [notes |-> n]))
            => Prepended(keys'[k].notes_history, keys[k].notes_history, n, "return")
     /\ \A k \in DOMAIN keys, n \in FixedNotes \ {None} :
          (last'.op = "mark_fixed" /\ last'.code = 200
           /\ mark_key_fixed(3, k, [notes |-> n]))
            => Prepended(keys'[k].notes_history, keys[k].notes_history, n, "marked_fixed")
     /\ \A k \in DOMAIN keys :
          /\ KeepsEarlier(keys'[k].notes_history, keys[k].notes_history)
          /\ NewestFirst(keys'[k].notes_history)]_vars

\* A checkout note followed, at a later time, by a return note in front of it.
NotesPrependedWitness ==
  \E k \in DOMAIN keys :
    /\ Len(keys[k].notes_history) = 3
    /\ keys[k].notes_history[1].action = "checkout"
    /\ keys[k].notes_history[2].action = "return"
    /\ keys[k].notes_history[3].action = "marked_fixed"
    /\ keys[k].notes_history[1].timestamp > keys[k].notes_history[2].timestamp
    /\ last.op = "checkout"

\* ------------------------------------------------------------ return of a key that is not out

\* C15: a return request on a key whose status is not checked_out is refused
\* with status 400 and leaves the key documents (status, current_checkout,
\* notes_history) and the key history as they were, whatever note it carries.
ReturnOfAvailableKeyRejected ==
  [][\A k \in DOMAIN keys, n \in ReturnNotes :
        (last'.op = "return" /\ keys[k].status /= CHECKED_OUT
         /\ return_key(3, k, [notes |-> n]))
          => /\ last'.code = 400
             /\ keys' = keys
             /\ key_history' = key_history]_vars

\* A refused return on a key that had gone out and come back with a note.
ReturnOfAvailableKeyRejectedWitness ==
  /\ last.op = "return"
  /\ last.code = 400
  /\ \E k \in DOMAIN keys :
       /\ last.key = keys[k].id
       /\ keys[k].status = AVAILABLE
       /\ keys[k].notes_history /= <<>>
       /\ keys[k].current_checkout = Null
  /\ key_history /= <<>>

\* ------------------------------------------------------------ sales tracker

MaxActivities == 2

\* A date "YYYY-MM-DD" as its year and its day of the year.
Date(year, day) == [year |-> year, day |-> day]

RECURSIVE SumOf(_, _)
SumOf(docs, field) ==
  IF docs = <<>> THEN 0 ELSE docs[1][field] + SumOf(Tail(docs), field)

create_sales_goal(uid, data) ==
  LET user == get_current_user(uid)
      req == Req("create_sales_goal", uid, 0, data)
  IN
  IF user = Null THEN Reject(Rsp(req, 401))
  ELSE IF \E g \in Range(sales_goals) : g.user_id = user.id /\ g.year = data.year
    THEN Reject(Rsp(req, 400))
  ELSE
    LET doc == [id |-> NewId("sales"), user_id |-> user.id, year |-> data.year,
                yearly_sales_target |-> data.yearly_sales_target]
    IN /\ sales_goals' = Append(sales_goals, doc)
       /\ uuid' = Bump("sales")
       /\ last' = RspBody(req, 200, doc)
       /\ UNCHANGED <<procs, tokens, users, dealerships, keys, key_history, repair_requests,
                      time_alerts, pdi_audit_log, invites, daily_activities,
                      now, cycle>>

create_daily_activity(uid, data) ==
  LET user == get_current_user(uid)
      req == Req("create_daily_activity", uid, 0, data)
      j == First({n \in DOMAIN daily_activities :
                    /\ daily_activities[n].user_id = user.id
                    /\ daily_activities[n].date = data.date})
  IN
  IF user = Null THEN Reject(Rsp(req, 401))
  ELSE IF j /= 0
    THEN LET doc == [daily_activities[j] EXCEPT !.worked = data.worked,
                                                !.sales = data.sales]
         IN /\ daily_activities' = [daily_activities EXCEPT ![j] = doc]
            /\ last' = RspBody(req, 200, doc)
            /\ UNCHANGED <<procs, tokens, users, dealerships, keys, key_history, repair_requests,
                           time_alerts, pdi_audit_log, invites, sales_goals,
                           uuid, now, cycle>>
  ELSE
    LET doc == [id |-> NewId("sales"), user_id |-> user.id, date |-> data.date,
                worked |-> data.worked, sales |-> data.sales]
    IN /\ daily_activities' = Append(daily_activities, doc)
       /\ uuid' = Bump("sales")
       /\ last' = RspBody(req, 200, doc)
       /\ UNCHANGED <<procs, tokens, users, dealerships, keys, key_history, repair_requests,
                      time_alerts, pdi_audit_log, invites, sales_goals, now, cycle>>

\* round(n / d, 1) for n / d >= 0, in tenths: to the nearest tenth, a tie to
\* the even one.
round1(n, d) ==
  LET q == (10 * n) \div d
      r == (10 * n) % d
  IN IF 2 * r > d \/ (2 * r = d /\ q % 2 = 1) THEN q + 1 ELSE q

\* goal_achievement_probability in tenths of a percent:
\* pace_ratio * 100 is total_sales * 365 * 100 / (sales_target * days_elapsed).
probability_unclamped(sales_target, days_elapsed, total_sales) ==
  IF sales_target > 0 /\ days_elapsed > 0
  THEN LET n == total_sales * 365 * 100
           d == sales_target * days_elapsed
       IN IF n <= 0 THEN 0 ELSE round1(n, d)
  ELSE IF sales_target > 0 THEN 0 ELSE 1000

probability(sales_target, days_elapsed, total_sales) ==
  IF sales_target > 0 /\ days_elapsed > 0
  THEN LET n == total_sales * 365 * 100
           d == sales_target * days_elapsed
       IN IF d > 0
          THEN IF n <= 0 THEN 0
               ELSE IF n >= 100 * d THEN 1000
               ELSE round1(n, d)
          ELSE 0
  ELSE IF sales_target > 0 THEN 0 ELSE 1000

on_track(sales_target, days_elapsed, total_sales) ==
  IF sales_target > 0 THEN total_sales * 365 >= sales_target * days_elapsed ELSE TRUE

\* today is datetime.now() as a Date; year 0 stands for no year parameter.
get_sales_progress(uid, user_id, year_param, today) ==
  LET current_user == get_current_user(uid)
      req == Req("sales_progress", uid, 0, Null)
      year == IF year_param = 0 THEN today.year ELSE year_param
      t == find_user(user_id)
      g == First({n \in DOMAIN sales_goals :
                    sales_goals[n].user_id = user_id /\ sales_goals[n].year = year})
      InYear(a) == a.user_id = user_id /\ a.date.year = year
      Worked(a) == a.worked
      activities == SelectSeq(daily_activities, InYear)
      total_sales == SumOf(activities, "sales")
      days_worked == Len(SelectSeq(activities, Worked))
      days_elapsed == IF today.year = year THEN today.day
                      ELSE IF today.year > year THEN 365
                      ELSE 0
      sales_target == IF g /= 0 THEN sales_goals[g].yearly_sales_target ELSE 0
  IN
  IF current_user = Null THEN Reject(Rsp(req, 401))
  ELSE IF current_user.role = USER /\ current_user.id /= user_id
    THEN Reject(Rsp(req, 403))
  ELSE IF /\ current_user.role = DEALERSHIP_ADMIN
          /\ t /= 0
          /\ users[t].dealership_id /= current_user.dealership_id
    THEN Reject(Rsp(req, 403))
  ELSE Reject(RspBody(req, 200,
                      [goal |-> IF g /= 0 THEN sales_goals[g] ELSE Null,
                       total_sales |-> total_sales,
                       days_worked |-> days_worked,
                       days_off |-> Len(activities) - days_worked,
                       days_elapsed |-> days_elapsed,
                       goal_achievement_probability |->
                         probability(sales_target, days_elapsed, total_sales),
                       on_track |-> on_track(sales_target, days_elapsed, total_sales)]))

GoalYears == {2026, 2027}
Targets == {0, 365}
ActivityDates == {Date(2026, 1), Date(2027, 1)}
SalesCounts == {0 - 1, 1, 3}
ProgressYears == {0, 2025, 2027}
Todays == {Date(2026, 1), Date(2026, 100), Date(2026, 365)}

InitSales == StaffedStore

NextSales ==
  \/ \E y \in GoalYears, target \in Targets :
       create_sales_goal(3, [year |-> y, yearly_sales_target |-> target])
  \/ \E d \in ActivityDates, s \in SalesCounts :
       /\ Len(daily_activities) < MaxActivities
       /\ create_daily_activity(3, [date |-> d, worked |-> s /= 1, sales |-> s])
  \/ \E y \in ProgressYears, today \in Todays :
       get_sales_progress(3, 3, y, today)

SpecSales == InitSales /\ [][NextSales]_vars

\* The yearly_sales_target of user 3's goal for the year asked about; 0 when
\* there is none.
GoalOf(year_param, today) ==
  LET year == IF year_param = 0 THEN today.year ELSE year_param
      goals == {g \in Range(sales_goals) : g.user_id = 3 /\ g.year = year}
  IN IF goals = {} THEN 0 ELSE (CHOOSE g \in goals : TRUE).yearly_sales_target

\* C16: a sales-progress answer has on_track true and probability 100 when the
\* yearly goal is 0 or absent, whatever the activity rows; probability 0 when
\* the goal is positive and days_elapsed is 0; and a probability between 0 and
\* 100 always.
SalesProgressProbability ==
  [][\A y \in ProgressYears, today \in Todays :
        (last'.op = "sales_progress" /\ last'.code = 200
         /\ get_sales_progress(3, 3, y, today))
          => LET body == last'.body
                 p == body.goal_achievement_probability
             IN /\ GoalOf(y, today) = 0 => (body.on_track /\ p = 1000)
                /\ (GoalOf(y, today) > 0 /\ body.days_elapsed = 0) => p = 0
                /\ 0 <= p /\ p <= 1000]_vars

\* Progress for the running year with a positive goal and sales behind the
\* pace: a probability strictly between 0 and 100.
SalesProgressProbabilityWitness ==
  /\ last.op = "sales_progress"
  /\ last.code = 200
  /\ last.body.goal /= Null
  /\ last.body.total_sales > 0
  /\ last.body.days_elapsed = 100
  /\ last.body.goal_achievement_probability > 0
  /\ last.body.goal_achievement_probability < 1000
  /\ ~last.body.on_track

\* ------------------------------------------------------------ key listing

\* GET /keys: the handler declares dealership_id and status; a pdi_status
\* query parameter reaches no parameter of it and is not read.
get_keys(uid, dealership_id, status, pdi_status) ==
  LET user == get_current_user(uid)
      req == Req("get_keys", uid, 0, Null)
      Wanted(key) ==
        /\ key.is_active
        /\ IF user.role = OWNER
           THEN dealership_id = NoId \/ key.dealership_id = dealership_id
           ELSE key.dealership_id = user.dealership_id
        /\ Truthy(status) => key.status = status
  IN
  IF user = Null THEN Reject(Rsp(req, 401))
  ELSE Reject(RspBody(req, 200, SelectSeq(keys, Wanted)))

ListingCallers == {1, 2, 4}
StatusFilters == {None, AVAILABLE, CHECKED_OUT}
PdiFilters == {None} \cup VALID_PDI_STATUSES

InitListing == OverdueStore

NextListing ==
  \/ \E u \in ListingCallers, d \in {NoId, 1}, s \in StatusFilters, f \in PdiFilters :
       get_keys(u, d, s, f)
  \/ \E k \in DOMAIN keys :
       /\ HistoryRoom
       /\ checkout_key(3, k, CheckoutData(None, FALSE, <<>>))
  \/ \E k \in DOMAIN keys :
       /\ HistoryRoom
       /\ return_key(3, k, [notes |-> None])
  \/ \E k \in DOMAIN keys, a \in {"false", "true"} :
       update_key(2, k, KeyUpdateData(Null, a))

SpecListing == InitListing /\ [][NextListing]_vars

\* C17: a key listing with a PDI-status filter answers exactly the caller's
\* in-scope active keys whose pdi_status is the filter value.
KeyListingPdiFilter ==
  [][\A u \in ListingCallers, f \in VALID_PDI_STATUSES :
        (last'.op = "get_keys" /\ last'.code = 200 /\ get_keys(u, NoId, None, f))
          => Range(last'.body) =
               {key \in Range(keys) :
                  /\ key.is_active
                  /\ in_scope(get_current_user(u), key)
                  /\ key.pdi_status = f}]_vars

\* ------------------------------------------------------------ staff names

StaffNameInputs == {Text("zed"), Caps("zed"), Text("bob")}
NamesRoom == Len(users) < MaxUsers + 2

RegisterData(name, email) ==
  [name |-> name, email |-> email, role |-> USER, dealership_id |-> 1]

InitNames == StaffedStore

NextNames ==
  \/ \E name \in StaffNameInputs :
       /\ NamesRoom
       /\ create_user(2, UserData(name, USER, 1, None), "salt1")
  \/ \E name \in StaffNameInputs, email \in AcceptEmails :
       /\ NamesRoom
       /\ register(RegisterData(name, email))
  \/ /\ uuid["invites"] < MaxInvites
     /\ create_invite(2, InviteData(1, USER, 7))
  \/ \E token \in InviteTokens, email \in AcceptEmails :
       /\ NamesRoom
       /\ accept_invite(AcceptData(token, email))

SpecNames == InitNames /\ [][NextNames]_vars

StaffRoles == {DEALERSHIP_ADMIN, USER}

\* C18: no two users with staff roles in one dealership have names that are
\* equal ignoring case.
StaffNamesUnique ==
  \A i, j \in DOMAIN users :
    (/\ i /= j
     /\ users[i].role \in StaffRoles
     /\ users[j].role \in StaffRoles
     /\ users[i].dealership_id = users[j].dealership_id)
      => lower(users[i].name) /= lower(users[j].name)

\* ------------------------------------------------------------ sessions

JWT_EXPIRATION_HOURS == 5
JWT_REMEMBER_ME_HOURS == 168
TicksPerHour == 60 * TicksPerMinute
MaxTokens == 2

\* The owner PIN of the environment.
OWNER_PIN == <<"9", "9", "9", "9">>

\* jwt.encode of the payload: the user and the expiry are what decode reads.
create_token(user_id, remember_me) ==
  LET expiration_hours == IF remember_me THEN JWT_REMEMBER_ME_HOURS
                          ELSE JWT_EXPIRATION_HOURS
  IN [user_id |-> user_id, remember_me |-> remember_me,
      exp |-> now + expiration_hours * TicksPerHour]

\* The client keeps the token of the response.
Issue(req, token) ==
  /\ tokens' = tokens \cup {token}
  /\ procs' = procs
  /\ last' = RspBody(req, 200, [access_token |-> token])

owner_login(data) ==
  LET req == Req("owner_login", NoId, 0, data)
      j == First({n \in DOMAIN users : users[n].role = OWNER})
  IN
  IF data.pin /= OWNER_PIN THEN Reject(Rsp(req, 401))
  ELSE IF j = 0
    THEN LET owner_id == NewId("users")
         IN /\ users' = Append(users,
                               [user_doc(owner_id, "owner@keyflow.app", OWNER, NoId)
                                  EXCEPT !.name = Text("System Owner")])
            /\ uuid' = Bump("users")
            /\ Issue(req, create_token(owner_id, data.remember_me))
            /\ UNCHANGED <<dealerships, keys, key_history, repair_requests,
                           time_alerts, pdi_audit_log, invites, sales_goals,
                           daily_activities, now, cycle>>
  ELSE /\ Issue(req, create_token(users[j].id, data.remember_me))
       /\ UNCHANGED <<db, now, cycle>>

demo_login ==
  LET req == Req("demo_login", NoId, 0, Null)
      d == First({n \in DOMAIN dealerships :
                    dealerships[n].name = "Demo Dealership" /\ dealerships[n].is_demo})
      dealership_id == IF d = 0 THEN NewId("dealerships") ELSE dealerships[d].id
      j == First({n \in DOMAIN users :
                    users[n].email = "demo@keyflow.app" /\ users[n].is_demo})
      user_id == IF j = 0 THEN NewId("users") ELSE users[j].id
  IN
  /\ dealerships' = IF d = 0
                    THEN Append(dealerships,
                                [dealership_doc(dealership_id, "Demo Dealership")
                                   EXCEPT !.is_demo = TRUE])
                    ELSE dealerships
  /\ users' = IF j = 0
              THEN Append(users,
                          [user_doc(user_id, "demo@keyflow.app", DEALERSHIP_ADMIN,
                                    dealership_id)
                             EXCEPT !.is_demo = TRUE, !.name = Text("Demo Admin")])
              ELSE users
  /\ uuid' = [uuid EXCEPT !["dealerships"] = IF d = 0 THEN @ + 1 ELSE @,
                          !["users"] = IF j = 0 THEN @ + 1 ELSE @]
  /\ Issue(req, create_token(user_id, FALSE))
  /\ UNCHANGED <<keys, key_history, repair_requests, time_alerts, pdi_audit_log,
                 invites, sales_goals, daily_activities, now, cycle>>

user_pin_login(data) ==
  LET req == Req("user_pin_login", NoId, 0, data)
      j == First({n \in DOMAIN users :
                    /\ users[n].dealership_id = data.dealership_id
                    /\ lower(users[n].name) = lower(data.name)
                    /\ users[n].role = USER})
  IN
  IF j = 0 THEN Reject(Rsp(req, 401))
  ELSE IF users[j].pin = Null THEN Reject(Rsp(req, 401))
  ELSE IF ~verify_password(data.pin, users[j].pin) THEN Reject(Rsp(req, 401))
  ELSE /\ Issue(req, create_token(users[j].id, data.remember_me))
       /\ UNCHANGED <<db, now, cycle>>

\* jwt.decode raises ExpiredSignatureError once the time has reached exp.
token_expired_never(token) == FALSE

token_expired(token) == token.exp <= now

\* GET /keys/{key_id} with the bearer token: get_current_user decodes it first.
bearer_get_key(token, key_id) ==
  IF token_expired(token)
  THEN Reject(Rsp(Req("get_key", token.user_id, key_id, Null), 401))
  ELSE get_key(token.user_id, key_id)

\* The times that matter to tokens issued in the first minute.
IssueTimes == 0..(TicksPerMinute - 1)
SessionTimes ==
  {i + h * TicksPerHour + d :
     i \in IssueTimes, h \in {0, JWT_EXPIRATION_HOURS, JWT_REMEMBER_ME_HOURS},
     d \in {0 - 1, 0, 1}} \ {0 - 1}

InitSession ==
  /\ users = <<user_doc(1, "owner@keyflow.app", OWNER, NoId),
               user_doc(2, "admin@d1", DEALERSHIP_ADMIN, 1),
               [user_doc(3, None, USER, 1) EXCEPT !.pin = hash_password(Pin1234, "salt1")]>>
  /\ dealerships = <<dealership_doc(1, "d1")>>
  /\ keys = <<new_key_doc(1, Text("A1"), Text("new"), 1)>>
  /\ key_history = <<>>
  /\ repair_requests = <<>>
  /\ time_alerts = <<>>
  /\ pdi_audit_log = <<>>
  /\ invites = <<>>
  /\ sales_goals = <<>>
  /\ daily_activities = <<>>
  /\ tokens = {}
  /\ procs = NoProcs
  /\ uuid = [c \in {"users", "dealerships", "repair_requests", "time_alerts", "invites", "sales"} |->
               IF c = "users" THEN 3 ELSE IF c = "dealerships" THEN 1 ELSE 0]
  /\ now = 0
  /\ last = NoRequest
  /\ cycle = NoCycle

LoginRoom == Cardinality(tokens) < MaxTokens /\ now \in IssueTimes

OwnerLogins == [pin : {OWNER_PIN, Pin1234}, remember_me : BOOLEAN]
UserPinLogins ==
  [dealership_id : {1}, name : {Caps("bob")}, pin : {Pin1234, Pin5555},
   remember_me : BOOLEAN]

NextSession ==
  \/ \E data \in OwnerLogins :
       /\ LoginRoom
       /\ owner_login(data)
  \/ /\ LoginRoom
     /\ demo_login
  \/ \E data \in UserPinLogins :
       /\ LoginRoom
       /\ user_pin_login(data)
  \/ delete_user(1, 3)
  \/ \E token \in tokens : bearer_get_key(token, 1)
  \/ \E t \in SessionTimes :
       /\ t > now
       /\ Advance(t - now)

SpecSession == InitSession /\ [][NextSession]_vars

RejectedCreateDealershipStoresNothing ==
  [][(last'.op = "create_dealership" /\ last'.code = 400)
       => (dealerships' = dealerships /\ users' = users)]_vars

\* ------------------------------------------------------------ overlapping requests

\* Each handler is a coroutine: every await of a store call is a point where
\* another request runs.  A request in flight keeps its position (pc), the
\* key document it read and the writes it has prepared from it (local).
\* get_current_user's read of the user is taken together with the handler's
\* first find_one: none of these handlers writes users.
Pids == {1, 2}

Idle == [op |-> "none", pc |-> "idle", uid |-> NoId, key_id |-> 0, code |-> 0,
         served |-> 0, local |-> Null]

Ready(p) == procs[p].pc \in {"idle", "done"}

\* The request is accepted: it holds `local` and waits at pc.
Hold(p, op, uid, key_id, pc, local) ==
  /\ procs' = [procs EXCEPT ![p] = [op |-> op, pc |-> pc, uid |-> uid,
                                    key_id |-> key_id, code |-> 0,
                                    served |-> @.served + 1, local |-> local]]
  /\ UNCHANGED <<tokens, db, now, last>>

\* raise HTTPException before any write.
Refuse(p, op, uid, key_id, code) ==
  /\ procs' = [procs EXCEPT ![p] = [op |-> op, pc |-> "done", uid |-> uid,
                                    key_id |-> key_id, code |-> code,
                                    served |-> @.served + 1, local |-> Null]]
  /\ last' = Rsp(Req(op, uid, key_id, Null), code)
  /\ UNCHANGED <<tokens, db, now>>

Goto(p, pc) == procs' = [procs EXCEPT ![p].pc = pc]

\* The closing find_one and the response built from it.
find_and_return(p) ==
  LET i == find_key(procs[p].key_id)
      req == Req(procs[p].op, procs[p].uid, procs[p].key_id, Null)
  IN /\ procs' = [procs EXCEPT ![p].pc = "done", ![p].code = 200]
     /\ last' = RspBody(req, 200, keys[i])
     /\ UNCHANGED <<tokens, db, now, cycle>>

\* {"$set": update}: the named fields of the stored document, the others kept.
set_fields(doc, update) ==
  [f \in DOMAIN doc |-> IF f \in DOMAIN update THEN update[f] ELSE doc[f]]

\* A conditional write: a checkout is dropped when the key is checked out by then.
update_one_key_if_available(key_id, update) ==
  LET i == find_key(key_id)
  IN IF i = 0 \/ ("status" \in DOMAIN update /\ update.status = CHECKED_OUT
                  /\ keys[i].status = CHECKED_OUT)
     THEN keys
     ELSE [keys EXCEPT ![i] = set_fields(@, update)]

\* db.keys.update_one({"id": key_id}, {"$set": update})
update_one_key(key_id, update) ==
  LET i == find_key(key_id)
  IN IF i = 0 THEN keys ELSE [keys EXCEPT ![i] = set_fields(@, update)]

\* Two checkouts of one key have both passed the availability check before
\* either wrote (observation only).
Racing(p, key_id) ==
  \E q \in Pids \ {p} :
    /\ procs[q].op = "checkout"
    /\ procs[q].key_id = key_id
    /\ procs[q].pc \in {"insert_repair", "update_key"}

checkout_key_find(p, uid, key_id, data) ==
  LET user == get_current_user(uid)
      i == find_key(key_id)
  IN
  /\ Ready(p)
  /\ IF user = Null THEN Refuse(p, "checkout", uid, key_id, 401) /\ cycle' = cycle
     ELSE IF i = 0 THEN Refuse(p, "checkout", uid, key_id, 404) /\ cycle' = cycle
     ELSE IF already_checked_out(keys[i])
       THEN Refuse(p, "checkout", uid, key_id, 400) /\ cycle' = CycleTouch(key_id)
     ELSE
       LET key == keys[i]
           checkout_info == [user_id |-> user.id,
                             reason |-> data.reason,
                             notes |-> data.notes,
                             service_bay |-> data.service_bay,
                             checked_out_at |-> now]
           update_data ==
             [status |-> CHECKED_OUT,
              current_checkout |-> checkout_info,
              notes_history |-> checkout_notes_history(key, data, user)]
           flagged ==
             IF data.images /= <<>>
             THEN [attention_status |-> NEEDS_ATTENTION,
                   images |-> checkout_images(data.images)]
             ELSE [attention_status |-> NEEDS_ATTENTION]
           history_doc == [id |-> 0,
                           key_id |-> key_id,
                           dealership_id |-> key.dealership_id,
                           action |-> "checkout",
                           user_id |-> user.id,
                           reason |-> data.reason,
                           notes |-> data.notes,
                           service_bay |-> data.service_bay,
                           checked_out_at |-> now]
       IN /\ Hold(p, "checkout", uid, key_id,
                  IF data.needs_attention THEN "insert_repair" ELSE "update_key",
                  [key |-> key,
                   update_data |-> IF data.needs_attention
                                   THEN flagged @@ update_data ELSE update_data,
                   repair_doc |-> IF data.needs_attention
                                  THEN repair_doc(key, data, user) ELSE Null,
                   history_doc |-> history_doc])
          /\ cycle' = IF Racing(p, key_id)
                      THEN [phase |-> "race", key |-> key_id, base |-> 0, notes |-> 0]
                      ELSE CycleTouch(key_id)

checkout_key_await(p) ==
  LET pc == procs[p].pc
      local == procs[p].local
  IN
  /\ procs[p].op = "checkout"
  /\ pc \in {"insert_repair", "update_key", "insert_history", "find_key"}
  /\ IF pc = "insert_repair"
     THEN /\ repair_requests' =
               Append(repair_requests,
                      [local.repair_doc EXCEPT !.id = NewId("repair_requests")])
          /\ uuid' = Bump("repair_requests")
          /\ Goto(p, "update_key")
          /\ UNCHANGED <<tokens, invites, users, dealerships, keys, key_history,
                         time_alerts, pdi_audit_log, sales_goals, daily_activities,
                         now, last, cycle>>
     ELSE IF pc = "update_key"
     THEN /\ keys' = update_one_key(procs[p].key_id, local.update_data)
          /\ Goto(p, "insert_history")
          /\ UNCHANGED <<tokens, invites, users, dealerships, key_history,
                         repair_requests, time_alerts, pdi_audit_log, sales_goals,
                         daily_activities, uuid, now, last, cycle>>
     ELSE IF pc = "insert_history"
     THEN /\ key_history' =
               Append(key_history,
                      [local.history_doc EXCEPT !.id = Len(key_history) + 1])
          /\ Goto(p, "find_key")
          /\ UNCHANGED <<tokens, invites, users, dealerships, keys, repair_requests,
                         time_alerts, pdi_audit_log, sales_goals, daily_activities,
                         uuid, now, last, cycle>>
     ELSE find_and_return(p)

return_key_find(p, uid, key_id, data) ==
  LET user == get_current_user(uid)
      i == find_key(key_id)
  IN
  /\ Ready(p)
  /\ cycle' = CycleTouch(key_id)
  /\ IF user = Null THEN Refuse(p, "return", uid, key_id, 401)
     ELSE IF i = 0 THEN Refuse(p, "return", uid, key_id, 404)
     ELSE IF not_checked_out(keys[i]) THEN Refuse(p, "return", uid, key_id, 400)
     ELSE IF keys[i].current_checkout = Null THEN Refuse(p, "return", uid, key_id, 500)
     ELSE
       LET key == keys[i]
           checkout_info == key.current_checkout
           returned_at == now
           history_doc == [id |-> 0,
                           key_id |-> key_id,
                           dealership_id |-> key.dealership_id,
                           action |-> "return",
                           user_id |-> user.id,
                           notes |-> data.notes,
                           returned_at |-> returned_at,
                           duration_minutes |->
                             duration_minutes(checkout_info.checked_out_at, returned_at),
                           original_checkout |-> checkout_info]
       IN Hold(p, "return", uid, key_id, "insert_history",
               [key |-> key,
                history_doc |-> history_doc,
                update_data |-> [status |-> AVAILABLE,
                                 current_checkout |-> Null,
                                 notes_history |-> return_notes_history(key, data, user)]])

return_key_await(p) ==
  LET pc == procs[p].pc
      local == procs[p].local
  IN
  /\ procs[p].op = "return"
  /\ pc \in {"insert_history", "update_key", "find_key"}
  /\ IF pc = "insert_history"
     THEN /\ key_history' =
               Append(key_history,
                      [local.history_doc EXCEPT !.id = Len(key_history) + 1])
          /\ Goto(p, "update_key")
          /\ UNCHANGED <<tokens, invites, users, dealerships, keys, repair_requests,
                         time_alerts, pdi_audit_log, sales_goals, daily_activities,
                         uuid, now, last, cycle>>
     ELSE IF pc = "update_key"
     THEN /\ keys' = update_one_key(procs[p].key_id, local.update_data)
          /\ Goto(p, "find_key")
          /\ UNCHANGED <<tokens, invites, users, dealerships, key_history,
                         repair_requests, time_alerts, pdi_audit_log, sales_goals,
                         daily_activities, uuid, now, last, cycle>>
     ELSE find_and_return(p)

move_to_bay_find(p, uid, key_id, new_bay) ==
  LET user == get_current_user(uid)
      i == find_key(key_id)
  IN
  /\ Ready(p)
  /\ cycle' = CycleTouch(key_id)
  /\ IF user = Null THEN Refuse(p, "move_bay", uid, key_id, 401)
     ELSE IF i = 0 THEN Refuse(p, "move_bay", uid, key_id, 404)
     ELSE IF not_checked_out(keys[i]) THEN Refuse(p, "move_bay", uid, key_id, 400)
     ELSE IF keys[i].current_checkout = Null THEN Refuse(p, "move_bay", uid, key_id, 500)
     ELSE
       LET key == keys[i]
           old_bay == key.current_checkout.service_bay
           checkout_info == [key.current_checkout EXCEPT !.service_bay = new_bay]
           history_doc == [id |-> 0,
                           key_id |-> key_id,
                           dealership_id |-> key.dealership_id,
                           action |-> "bay_move",
                           user_id |-> user.id,
                           old_bay |-> old_bay,
                           new_bay |-> new_bay,
                           moved_at |-> now]
       IN Hold(p, "move_bay", uid, key_id, "update_key",
               [key |-> key,
                update_data |-> [current_checkout |-> checkout_info],
                history_doc |-> history_doc])

move_to_bay_await(p) ==
  LET pc == procs[p].pc
      local == procs[p].local
  IN
  /\ procs[p].op = "move_bay"
  /\ pc \in {"update_key", "insert_history", "find_key"}
  /\ IF pc = "update_key"
     THEN /\ keys' = update_one_key(procs[p].key_id, local.update_data)
          /\ Goto(p, "insert_history")
          /\ UNCHANGED <<tokens, invites, users, dealerships, key_history,
                         repair_requests, time_alerts, pdi_audit_log, sales_goals,
                         daily_activities, uuid, now, last, cycle>>
     ELSE IF pc = "insert_history"
     THEN /\ key_history' =
               Append(key_history,
                      [local.history_doc EXCEPT !.id = Len(key_history) + 1,
                                                !.moved_at = now])
          /\ Goto(p, "find_key")
          /\ UNCHANGED <<tokens, invites, users, dealerships, keys, repair_requests,
                         time_alerts, pdi_audit_log, sales_goals, daily_activities,
                         uuid, now, last, cycle>>
     ELSE find_and_return(p)

mark_key_fixed_find(p, uid, key_id, data) ==
  LET user == get_current_user(uid)
      i == find_key(key_id)
  IN
  /\ Ready(p)
  /\ cycle' = CycleTouch(key_id)
  /\ IF user = Null THEN Refuse(p, "mark_fixed", uid, key_id, 401)
     ELSE IF i = 0 THEN Refuse(p, "mark_fixed", uid, key_id, 404)
     ELSE IF not_flagged(keys[i]) THEN Refuse(p, "mark_fixed", uid, key_id, 400)
     ELSE
       LET key == keys[i]
           notes_history ==
             Insert0(key.notes_history,
                     note_entry(IF Truthy(data.notes) THEN data.notes
                                ELSE "Marked as fixed",
                                user, "marked_fixed"))
       IN Hold(p, "mark_fixed", uid, key_id, "update_attention",
               [key |-> key,
                user |-> user,
                data |-> data,
                fixed_at |-> now,
                update_data |-> [notes_history |-> notes_history]])

mark_key_fixed_await(p) ==
  LET pc == procs[p].pc
      local == procs[p].local
  IN
  /\ procs[p].op = "mark_fixed"
  /\ pc \in {"update_attention", "update_repair", "update_key", "find_key"}
  /\ IF pc = "update_attention"
     THEN /\ keys' = update_one_key(procs[p].key_id, [attention_status |-> FIXED])
          /\ Goto(p, "update_repair")
          /\ UNCHANGED <<tokens, invites, users, dealerships, key_history,
                         repair_requests, time_alerts, pdi_audit_log, sales_goals,
                         daily_activities, uuid, now, last, cycle>>
     ELSE IF pc = "update_repair"
     THEN /\ repair_requests' =
               LET fixed == fix_repair_request(repair_requests, procs[p].key_id,
                                               local.user, local.data)
               IN [j \in DOMAIN repair_requests |->
                     IF fixed[j] = repair_requests[j] THEN fixed[j]
                     ELSE [fixed[j] EXCEPT !.fixed_at = <<local.fixed_at>>]]
          /\ Goto(p, "update_key")
          /\ UNCHANGED <<tokens, invites, users, dealerships, keys, key_history,
                         time_alerts, pdi_audit_log, sales_goals, daily_activities,
                         uuid, now, last, cycle>>
     ELSE IF pc = "update_key"
     THEN /\ keys' = update_one_key(procs[p].key_id, local.update_data)
          /\ Goto(p, "find_key")
          /\ UNCHANGED <<tokens, invites, users, dealerships, key_history,
                         repair_requests, time_alerts, pdi_audit_log, sales_goals,
                         daily_activities, uuid, now, last, cycle>>
     ELSE find_and_return(p)

\* One key, either as create_key left it or as a checkout by the staff user
\* with a note and needs_attention left it.
RaceCheckout == [user_id |-> 3, reason |-> "service", notes |-> "seen",
                 service_bay |-> None, checked_out_at |-> 0]

RaceStore(out) ==
  /\ users = <<user_doc(1, "owner@keyflow.app", OWNER, NoId),
               user_doc(2, "admin@d1", DEALERSHIP_ADMIN, 1),
               user_doc(3, None, USER, 1)>>
  /\ dealerships = <<dealership_doc(1, "d1")>>
  /\ keys = <<IF out
              THEN [new_key_doc(1, Text("A1"), Text("new"), 1)
                      EXCEPT !.status = CHECKED_OUT,
                             !.current_checkout = RaceCheckout,
                             !.notes_history =
                                <<[note |-> "seen", user_id |-> 3,
                                   action |-> "checkout", timestamp |-> 0]>>,
                             !.attention_status = NEEDS_ATTENTION]
              ELSE new_key_doc(1, Text("A1"), Text("new"), 1)>>
  /\ key_history = IF out
                   THEN <<[id |-> 1, key_id |-> 1, dealership_id |-> 1,
                           action |-> "checkout", user_id |-> 3,
                           reason |-> "service", notes |-> "seen",
                           service_bay |-> None, checked_out_at |-> 0]>>
                   ELSE <<>>
  /\ repair_requests = IF out
                       THEN <<[id |-> 1, key_id |-> 1, stock_number |-> Text("A1"),
                               dealership_id |-> 1, reported_by_id |-> 3,
                               notes |-> "seen", images |-> <<>>,
                               status |-> "pending", reported_at |-> 0,
                               fixed_by_id |-> NoId, fixed_at |-> <<>>,
                               fix_notes |-> None]>>
                       ELSE <<>>
  /\ time_alerts = <<>>
  /\ pdi_audit_log = <<>>
  /\ invites = <<>>
  /\ sales_goals = <<>>
  /\ daily_activities = <<>>
  /\ tokens = {}
  /\ procs = [p \in Pids |-> Idle]
  /\ uuid = [c \in {"users", "dealerships", "repair_requests", "time_alerts", "invites", "sales"} |->
               IF c = "users" THEN 3
               ELSE IF c = "dealerships" \/ (c = "repair_requests" /\ out) THEN 1 ELSE 0]
  /\ now = 0
  /\ last = NoRequest
  /\ cycle = NoCycle

\* Requests each client may send.
MaxServed == 1

\* The two clients: the staff user and the dealership admin.
Caller(p) == IF p = 1 THEN 3 ELSE 2

RaceNotes == {None, "note"}

InitRace == \E out \in BOOLEAN : RaceStore(out)

NextRace ==
  \E p \in Pids :
    \/ \E n \in RaceNotes, na \in BOOLEAN :
         /\ procs[p].served < MaxServed
         /\ checkout_key_find(p, Caller(p), 1, CheckoutData(n, na, <<>>))
    \/ \E n \in RaceNotes :
         /\ procs[p].served < MaxServed
         /\ return_key_find(p, Caller(p), 1, [notes |-> n])
    \/ /\ procs[p].served < MaxServed
       /\ move_to_bay_find(p, Caller(p), 1, "bay2")
    \/ \E n \in RaceNotes :
         /\ procs[p].served < MaxServed
         /\ mark_key_fixed_find(p, Caller(p), 1, [notes |-> n])
    \/ checkout_key_await(p)
    \/ return_key_await(p)
    \/ move_to_bay_await(p)
    \/ mark_key_fixed_await(p)

SpecRace == InitRace /\ [][NextRace]_vars

KeyRecords(history, key_id) == SelectSeq(history, LAMBDA r : r.key_id = key_id)

Written(p) == procs[p].pc \in {"insert_history", "find_key", "done"}

\* C21: when two checkouts of one available key have both passed the
\* availability check before either wrote, each write of the key makes the
\* writer's checkout the current one, nothing changes it once both have
\* written (so the later write stands), and when both are done both were
\* answered 200 and the key's last two history records are the two checkouts,
\* with no return between them.
CheckoutRace ==
  [][cycle'.phase = "race" =>
       LET i == find_key(cycle'.key)
           records == KeyRecords(key_history', cycle'.key)
           n == Len(records)
       IN /\ \A p \in Pids :
               (procs[p].pc = "update_key" /\ procs'[p].pc = "insert_history")
                 => /\ keys'[i].status = CHECKED_OUT
                    /\ keys'[i].current_checkout =
                         procs[p].local.update_data.current_checkout
          /\ (\A p \in Pids : Written(p))
               => keys'[i].current_checkout = keys[i].current_checkout
          /\ (\A p \in Pids : procs'[p].pc = "done")
               => /\ \A p \in Pids : procs'[p].op = "checkout" /\ procs'[p].code = 200
                  /\ n >= 2
                  /\ records[n].action = "checkout"
                  /\ records[n - 1].action = "checkout"
                  /\ {records[n].user_id, records[n - 1].user_id}
                       = {Caller(p) : p \in Pids}
                  /\ keys'[i].status = CHECKED_OUT
                  /\ keys'[i].current_checkout.user_id \in {Caller(p) : p \in Pids}]_vars

\* Both racing checkouts were answered 200; the admin's write came second and
\* the staff user's history record came second.
CheckoutRaceWitness ==
  /\ cycle.phase = "race"
  /\ \A p \in Pids : procs[p].pc = "done" /\ procs[p].code = 200
  /\ keys[1].current_checkout.user_id = 2
  /\ Len(key_history) = 2
  /\ key_history[1].action = "checkout" /\ key_history[1].user_id = 2
  /\ key_history[2].action = "checkout" /\ key_history[2].user_id = 3

\* C22: when an overlapping move-bay and return on one checked-out key have
\* both been answered, the key is not available with a non-null
\* current_checkout.
MoveBayReturnRace ==
  (/\ {procs[p].op : p \in DOMAIN procs} = {"move_bay", "return"}
   /\ \A p \in DOMAIN procs : procs[p].pc = "done" /\ procs[p].code = 200)
    => \A i \in DOMAIN keys :
         ~(keys[i].status = AVAILABLE /\ keys[i].current_checkout /= Null)

\* C27: under every interleaving of overlapping checkout, return and
\* mark-fixed requests on one key, no step removes a note entry from the key's
\* notes_history.
NotesHistoryKeptUnderOverlap ==
  [][\A i \in DOMAIN keys :
       \A e \in Range(keys[i].notes_history) :
         e \in Range(keys'[i].notes_history)]_vars

\* ------------------------------------------------------------ overlapping accepts

\* accept_invite awaits four store calls: the find_one of the invite, the
\* find_one of the email, the insert_one of the user and the update_one of
\* the invite.
accept_invite_find(p, data) ==
  LET i == find_invite_by_token(data.token)
  IN
  /\ Ready(p)
  /\ cycle' = cycle
  /\ IF i = 0 THEN Refuse(p, "accept_invite", NoId, 0, 404)
     ELSE IF invite_used(invites[i]) THEN Refuse(p, "accept_invite", NoId, 0, 400)
     ELSE IF invite_expired(invites[i]) THEN Refuse(p, "accept_invite", NoId, 0, 400)
     ELSE Hold(p, "accept_invite", NoId, 0, "find_user",
               [invite |-> invites[i], data |-> data, user_id |-> NoId])

accept_invite_await(p) ==
  LET pc == procs[p].pc
      local == procs[p].local
      req == Req("accept_invite", NoId, 0, Null)
  IN
  /\ procs[p].op = "accept_invite"
  /\ pc \in {"find_user", "insert_user", "update_invite"}
  /\ IF pc = "find_user"
     THEN IF find_user_by_email(local.data.email) /= 0
          THEN /\ procs' = [procs EXCEPT ![p].pc = "done", ![p].code = 400]
               /\ last' = Rsp(req, 400)
               /\ UNCHANGED <<tokens, db, now, cycle>>
          ELSE /\ Goto(p, "insert_user")
               /\ UNCHANGED <<tokens, db, now, last, cycle>>
     ELSE IF pc = "insert_user"
     THEN /\ users' = Append(users,
                             [user_doc(NewId("users"), local.data.email,
                                       local.invite.role, local.invite.dealership_id)
                                EXCEPT !.name = local.data.name])
          /\ uuid' = Bump("users")
          /\ procs' = [procs EXCEPT ![p].pc = "update_invite",
                                    ![p].local.user_id = NewId("users")]
          /\ UNCHANGED <<tokens, invites, dealerships, keys, key_history,
                         repair_requests, time_alerts, pdi_audit_log, sales_goals,
                         daily_activities, now, last, cycle>>
     ELSE LET i == find_invite_by_token(local.data.token)
          IN /\ invites' = IF i = 0 THEN invites
                           ELSE [invites EXCEPT ![i].is_used = TRUE,
                                                ![i].used_by = local.user_id]
             /\ procs' = [procs EXCEPT ![p].pc = "done", ![p].code = 200]
             /\ last' = RspBody(req, 200, [id |-> local.user_id])
             /\ UNCHANGED <<tokens, users, dealerships, keys, key_history,
                            repair_requests, time_alerts, pdi_audit_log, sales_goals,
                            daily_activities, uuid, now, cycle>>

\* The staffed store with one invite the admin created for a staff user.
InitAcceptRace ==
  /\ users = <<user_doc(1, "owner@keyflow.app", OWNER, NoId),
               user_doc(2, "admin@d1", DEALERSHIP_ADMIN, 1),
               user_doc(3, None, USER, 1)>>
  /\ dealerships = <<dealership_doc(1, "d1")>>
  /\ keys = <<>>
  /\ key_history = <<>>
  /\ repair_requests = <<>>
  /\ time_alerts = <<>>
  /\ pdi_audit_log = <<>>
  /\ invites = <<[id |-> 1, token |-> 1, dealership_id |-> 1, dealership_name |-> "d1",
                  role |-> USER, created_by |-> 2, created_at |-> 0,
                  expires_at |-> TicksPerDay, is_used |-> FALSE, used_by |-> NoId]>>
  /\ sales_goals = <<>>
  /\ daily_activities = <<>>
  /\ tokens = {}
  /\ procs = [p \in Pids |-> Idle]
  /\ uuid = [c \in {"users", "dealerships", "repair_requests", "time_alerts", "invites", "sales"} |->
               IF c = "users" THEN 3
               ELSE IF c \in {"dealerships", "invites"} THEN 1 ELSE 0]
  /\ now = 0
  /\ last = NoRequest
  /\ cycle = NoCycle

NextAcceptRace ==
  \E p \in Pids :
    \/ \E token \in InviteTokens, email \in AcceptEmails :
         /\ procs[p].served < MaxServed + 1
         /\ accept_invite_find(p, AcceptData(token, email))
    \/ accept_invite_await(p)

SpecAcceptRace == InitAcceptRace /\ [][NextAcceptRace]_vars

\* The users created by accepting an invite.
Accepted == {j \in DOMAIN users : users[j].email \in AcceptEmails \ {"admin@d1"}}

\* C23: overlapping accepts of one unused, unexpired token with different
\* unregistered emails create at most one user, and once they are answered the
\* invite's used_by is that user.
AcceptInviteRace ==
  /\ \A j, k \in Accepted : users[j].email = users[k].email
  /\ \A i \in DOMAIN invites :
       (invites[i].is_used /\ \A p \in DOMAIN procs : procs[p].pc \in {"idle", "done"})
         => \E j \in Accepted : users[j].id = invites[i].used_by

\* ------------------------------------------------------------ return record

ReturnClockEnd == 2 * TicksPerMinute + 1
Bays == {"bay1", "bay2"}

InitReturn == KeyedStore(1)

NextReturn ==
  \/ \E n \in RaceNotes :
       /\ Len(key_history) < MaxHistory + 1
       /\ NotesSpace
       /\ checkout_key(3, 1, CheckoutData(n, FALSE, <<>>))
  \/ \E bay \in Bays :
       /\ Len(key_history) < MaxHistory + 1
       /\ move_to_bay(3, 1, bay)
  \/ \E u \in {2, 3} :
       /\ Len(key_history) < MaxHistory + 2
       /\ return_key(u, 1, [notes |-> None])
  \/ \E t \in {1, TicksPerMinute} :
       /\ now + t <= ReturnClockEnd
       /\ Advance(t)

SpecReturn == InitReturn /\ [][NextReturn]_vars

\* C24: a successful return appends one history record whose
\* original_checkout is the key's current_checkout just before the return
\* (holder, reason, note, bay after any bay move, checkout time) and whose
\* duration_minutes is the whole number of minutes from that checkout's
\* checked_out_at to the return time, never negative.
ReturnRecord ==
  [][(/\ last'.op = "return"
      /\ last'.code = 200
      /\ \E u \in {2, 3} : return_key(u, last'.key, [notes |-> None]))
       => LET i == find_key(last'.key)
              n == Len(key_history)
              record == key_history'[n + 1]
              checkout == keys[i].current_checkout
              elapsed == now' - checkout.checked_out_at
          IN /\ Len(key_history') = n + 1
             /\ SubSeq(key_history', 1, n) = key_history
             /\ record.action = "return"
             /\ record.key_id = last'.key
             /\ record.original_checkout = checkout
             /\ record.returned_at = now'
             /\ record.duration_minutes >= 0
             /\ record.duration_minutes * TicksPerMinute <= elapsed
             /\ elapsed < (record.duration_minutes + 1) * TicksPerMinute]_vars

\* A key moved to bay2 was returned a minute and a fraction after its checkout.
ReturnRecordWitness ==
  /\ last.op = "return"
  /\ last.code = 200
  /\ key_history /= <<>>
  /\ LET record == key_history[Len(key_history)]
     IN /\ record.action = "return"
        /\ record.duration_minutes = 1
        /\ record.original_checkout.service_bay = "bay2"
        /\ (record.returned_at - record.original_checkout.checked_out_at)
             % TicksPerMinute /= 0

\* ------------------------------------------------------------ history log

\* The history action a request writes.
HistoryAction(op) == IF op = "move_bay" THEN "bay_move" ELSE op

\* C25: key_history is append-only: no step changes or removes a stored
\* record or adds more than one; a record is added only by a checkout, return
\* or move-bay answered 200, with that action, the key and the key's
\* dealership; each such request adds one, and a rejected request adds none.
KeyHistoryAppendOnly ==
  [][LET n == Len(key_history)
     IN /\ Len(key_history') \in {n, n + 1}
        /\ SubSeq(key_history', 1, n) = key_history
        /\ Len(key_history') = n + 1
             => LET record == key_history'[n + 1]
                IN /\ last'.op \in {"checkout", "return", "move_bay"}
                   /\ last'.code = 200
                   /\ record.action = HistoryAction(last'.op)
                   /\ record.key_id = last'.key
                   /\ record.dealership_id = keys[find_key(last'.key)].dealership_id
        /\ (\/ /\ last'.op = "checkout"
                /\ \E na \in BOOLEAN :
                     checkout_key(3, last'.key, CheckoutData("note", na, <<>>))
             \/ (last'.op = "return" /\ return_key(3, last'.key, [notes |-> None]))
             \/ (last'.op = "move_bay" /\ move_to_bay(3, last'.key, "bay2"))
             \/ (last'.op = "mark_fixed" /\ mark_key_fixed(3, last'.key, [notes |-> None])))
               => Len(key_history') = (IF last'.code = 200 /\ last'.op /= "mark_fixed"
                                       THEN n + 1 ELSE n)]_vars

\* A checkout and a bay move are logged, and a mark-fixed was then rejected.
KeyHistoryAppendOnlyWitness ==
  /\ Len(key_history) = 2
  /\ key_history[1].action = "checkout"
  /\ key_history[2].action = "bay_move"
  /\ key_history[2].key_id = key_history[1].key_id
  /\ last.op = "mark_fixed"
  /\ last.code = 400

\* ------------------------------------------------------------ demo user only

InitDemoUser == DemoStore

NextDemoUser ==
  \/ /\ Len(keys) < MaxDemoKeys
     /\ create_key(2, KeyData(Text("A1"), 1))
  \/ \E rows \in DemoRowLists :
       /\ Len(keys) + Len(rows) <= MaxDemoKeys
       /\ bulk_import_keys(2, [dealership_id |-> 1, keys |-> rows])
  \/ \E k \in DOMAIN keys, a \in {"false", "true"} :
       update_key(2, k, KeyUpdateData(Null, a))

SpecDemoUser == InitDemoUser /\ [][NextDemoUser]_vars

\* C26: whatever create-key, bulk-import and update-key requests the demo
\* user sends, the demo dealership never has more than DEMO_MAX_KEYS active
\* keys.
DemoActiveKeysCapped == Cardinality(ActiveKeys(1)) <= DEMO_MAX_KEYS

\* ------------------------------------------------------------ attention and repair requests

Pending(key_id) ==
  {j \in DOMAIN repair_requests :
     repair_requests[j].key_id = key_id /\ repair_requests[j].status = "pending"}

\* C28: after any sequence of checkout, return, mark-fixed and
\* clear-repair-request requests, one at a time, a key's attention_status is
\* needs_attention exactly when a pending repair request references it.
AttentionIffPending ==
  \A i \in DOMAIN keys :
    keys[i].attention_status = NEEDS_ATTENTION <=> Pending(keys[i].id) /= {}

\* ------------------------------------------------------------ owner role

\* Callers who do not know the owner PIN.
RegisterRoles == {USER, OWNER}

InitOwner == StaffedStore

NextOwner ==
  \/ \E role \in RegisterRoles, email \in AcceptEmails :
       /\ NamesRoom
       /\ register([name |-> Text("zed"), email |-> email, role |-> role,
                    dealership_id |-> 1])
  \/ \E role \in {USER, DEALERSHIP_ADMIN, OWNER} :
       /\ NamesRoom
       /\ create_user(2, UserData(Text("zed"), role, 1, None), "salt1")
  \/ \E role \in {USER, DEALERSHIP_ADMIN, OWNER} :
       /\ uuid["invites"] < MaxInvites
       /\ create_invite(2, InviteData(1, role, 7))
  \/ \E token \in InviteTokens, email \in AcceptEmails :
       /\ NamesRoom
       /\ accept_invite(AcceptData(token, email))
  \/ \E remember_me \in BOOLEAN :
       owner_login([pin |-> Pin1234, remember_me |-> remember_me])

SpecOwner == InitOwner /\ [][NextOwner]_vars

\* C29: while nobody supplies the owner PIN, the only stored user with role
\* owner is the one owner_login created.
OwnerOnlyByPin ==
  \A j \in DOMAIN users :
    users[j].role = OWNER => users[j] = user_doc(1, "owner@keyflow.app", OWNER, NoId)

\* ------------------------------------------------------------ dashboard

get_dashboard_stats(uid) ==
  LET user == get_current_user(uid)
      req == Req("stats", uid, 0, Null)
  IN
  IF user = Null THEN Reject(Rsp(req, 401))
  ELSE
    LET InScope(d) == in_scope(user, d)
        CheckedOut(k) == InScope(k) /\ k.status = CHECKED_OUT
        Active(k) == InScope(k) /\ k.is_active
        UserScope(d) == user.role /= DEALERSHIP_ADMIN
                        \/ d.dealership_id = user.dealership_id
        total_keys == Len(SelectSeq(keys, Active))
        checked_out == Len(SelectSeq(keys, CheckedOut))
        available == total_keys - checked_out
        overdue == overdue_keys(SelectSeq(keys, CheckedOut),
                                SelectSeq(time_alerts, InScope), 1)
    IN Reject(RspBody(req, 200,
                      [total_keys |-> total_keys,
                       available_keys |-> available,
                       checked_out_keys |-> checked_out,
                       overdue_keys |-> Len(overdue),
                       total_users |-> Len(SelectSeq(users, UserScope)),
                       total_dealerships |-> IF user.role = OWNER
                                             THEN Len(dealerships) ELSE 1]))

StatsCallers == {1, 2, 3}

InitStats == StaffedStore

NextStats ==
  \/ /\ Len(keys) < MaxKeys + 1
     /\ create_key(2, KeyData(Text("A1"), 1))
  \/ \E k \in DOMAIN keys, a \in {"false", "true"} :
       update_key(2, k, KeyUpdateData(Null, a))
  \/ \E k \in DOMAIN keys :
       /\ Len(key_history) < MaxHistory + 1
       /\ checkout_key(3, k, CheckoutData(None, FALSE, <<>>))
  \/ \E k \in DOMAIN keys :
       /\ Len(key_history) < MaxHistory + 1
       /\ return_key(3, k, [notes |-> None])
  \/ \E u \in StatsCallers : get_dashboard_stats(u)

SpecStats == InitStats /\ [][NextStats]_vars

\* The active keys in the caller's scope with the given status.
ActiveWithStatus(user, status) ==
  {i \in DOMAIN keys :
     in_scope(user, keys[i]) /\ keys[i].is_active /\ keys[i].status = status}

\* C30: after any sequence of key create, update, checkout and return
\* requests the dashboard's available_keys is the number of active in-scope
\* keys that are available, checked_out_keys the number that are checked
\* out, and available_keys is not negative.
DashboardCounts ==
  [][\A u \in StatsCallers :
       (last'.op = "stats" /\ get_dashboard_stats(u))
         => LET user == get_current_user(u)
            IN /\ last'.body.available_keys
                    = Cardinality(ActiveWithStatus(user, AVAILABLE))
               /\ last'.body.checked_out_keys
                    = Cardinality(ActiveWithStatus(user, CHECKED_OUT))
               /\ last'.body.available_keys >= 0]_vars

====
